---- MODULE Spec2Model ----
(***************************************************************************)
(* Model of the co-SNARKs zkSaaS blueprint node:                           *)
(*   - MpcNetworkManager (network.rs): the session cache and               *)
(*     establish_mpc_session;                                              *)
(*   - mpc_config_exchange (p2p/mod.rs): the two-round commit-reveal;      *)
(*   - CircuitStore (state.rs): sled metadata tree plus blob files.        *)
(* Each subsystem has its own specification over the shared variables; the *)
(* variables of the other subsystems stay at their idle values.            *)
(***************************************************************************)
EXTENDS Integers, Sequences, FiniteSets, TLC

VARIABLES
    established_handlers,   \* network.rs: HashMap<String, Arc<MpcNetworkHandler>>
    calls,                  \* one record per establish_mpc_session invocation
    nextHandle,             \* identity of the next Arc::new(handler) allocation
    n,                      \* p2p/mod.rs: number of parties of the exchange
    dishonest,              \* party indices that do not run mpc_config_exchange
    local_config,           \* p2p/mod.rs: each party's own RevealMsg
    xpc,                    \* position of each party in mpc_config_exchange
    commitments,            \* round 1 messages each party's router collected
    revealed_configs,       \* round 2 messages each party's router collected
    result,                 \* what mpc_config_exchange returned to each party
    info_tree,              \* state.rs: the sled tree "circuit_info" as the process sees it
    durable_tree,           \* the sled tree as flushed to disk
    dirs,                   \* per-circuit directories under artifacts/
    files,                  \* blob files under artifacts/<id>/
    op,                     \* the CircuitStore operation in progress, or the last one
    job,                    \* jobs/: the job handler invocation in progress, or the last one
    derived,                \* generate_proof.rs: what each node derived for a call
    rounds,                 \* p2p/mod.rs: the local party's RoundsRouter and its position
    concurrent,             \* state.rs: the CircuitStore operation of a second thread
    parsing                 \* p2p/mod.rs: a call of parse_dns_name, its argument and its result

sessionVars == <<established_handlers, calls, nextHandle>>

exchangeVars ==
    <<n, dishonest, local_config, xpc, commitments, revealed_configs, result>>

storeVars == <<info_tree, durable_tree, dirs, files, op>>

jobVars == <<job, derived>>

transcriptVars == <<rounds>>

concurrentVars == <<concurrent>>

parseVars == <<parsing>>

vars == <<sessionVars, exchangeVars, storeVars, jobVars, transcriptVars, concurrentVars, parseVars>>

(***************************************************************************)
(* Bounds                                                                  *)
(***************************************************************************)
MaxCalls == 3

MaxParties == 3

MaxJobs == 3

MaxNodes == 2

(***************************************************************************)
(* Config Exchange (p2p/mod.rs)                                            *)
(***************************************************************************)
AllParties == 0..(MaxParties - 1)

Parties == 0..(n - 1)

Honest == Parties \ dishonest

NoMsg == <<>>

\* What mpc_config_exchange returns: nothing yet, the verified configs, or an
\* error with its blames.
NoResult ==
    [kind |-> "none", party_configs |-> <<>>, guilty_parties |-> <<>>]

\* The transport's identifier of the message party j sent in a round.
MsgId(round, j) == <<round, j>>

\* The mutated blame: it names the party before the one whose pair failed.
BlamePreceding(party_idx, commit_msg_id, reveal_msg_id) ==
    [guilty_party |-> IF party_idx > 0 THEN party_idx - 1 ELSE party_idx,
     commitment_msg |-> commit_msg_id, reveal_msg |-> reveal_msg_id]

\* Blame { guilty_party: party_idx, commitment_msg, reveal_msg }
Blame(party_idx, commit_msg_id, reveal_msg_id) ==
    [guilty_party |-> party_idx, commitment_msg |-> commit_msg_id,
     reveal_msg |-> reveal_msg_id]

\* Text is a sequence of one-character strings.
DigitChars == {"0", "1", "2", "3", "4", "5", "6", "7", "8", "9"}

DigitVal(ch) ==
    CASE ch = "0" -> 0 [] ch = "1" -> 1 [] ch = "2" -> 2 [] ch = "3" -> 3
      [] ch = "4" -> 4 [] ch = "5" -> 5 [] ch = "6" -> 6 [] ch = "7" -> 7
      [] ch = "8" -> 8 [] ch = "9" -> 9

DigitOf(k) == <<"0", "1", "2", "3", "4", "5", "6", "7", "8", "9">>[k + 1]

\* dns_name.split(':').collect()
RECURSIVE split(_)
split(s) ==
    IF s = <<>> THEN << <<>> >>
    ELSE LET rest == split(Tail(s))
         IN  IF Head(s) = ":" THEN << <<>> >> \o rest
             ELSE << <<Head(s)>> \o rest[1] >> \o Tail(rest)

\* Value of a run of decimal digits.
RECURSIVE DecimalValue(_)
DecimalValue(ds) ==
    IF ds = <<>> THEN 0
    ELSE 10 * DecimalValue(SubSeq(ds, 1, Len(ds) - 1)) + DigitVal(ds[Len(ds)])

U16Max == 65535

ParseFailed == [ok |-> FALSE, value |-> 0]

\* str::parse::<u16>(): an optional '+', then one or more decimal digits, the
\* value at most u16::MAX.
parse_u16(s) ==
    LET ds == IF s # <<>> /\ Head(s) = "+" THEN Tail(s) ELSE s
    IN  IF ds = <<>> \/ \E k \in 1..Len(ds) : ds[k] \notin DigitChars
        THEN ParseFailed
        ELSE IF DecimalValue(ds) > U16Max THEN ParseFailed
        ELSE [ok |-> TRUE, value |-> DecimalValue(ds)]

InvalidDns == [ok |-> FALSE, hostname |-> <<>>, port |-> 0]

\* parse_dns_name: "hostname:port" into mpc_net::config::Address
parse_dns_name(dns_name) ==
    LET parts == split(dns_name)
    IN  IF Len(parts) # 2 THEN InvalidDns
        ELSE IF ~parse_u16(parts[2]).ok THEN InvalidDns
        ELSE [ok |-> TRUE, hostname |-> parts[1], port |-> parse_u16(parts[2]).value]

Address(parsed) == [hostname |-> parsed.hostname, port |-> parsed.port]

NoParsing == [pc |-> "off", dns_name |-> <<>>, result |-> InvalidDns]

\* The texts before the first colon and between colons of the strings passed
\* to parse_dns_name.
HostTexts == { <<>>, <<"h">>, <<"h", "o", "s", "t">> }

PortTexts ==
    { <<"0">>, <<"6", "5", "5", "3", "5">>, <<"6", "5", "5", "3", "6">>,
      <<"-", "1">>, <<"+", "8", "0">>, <<"8", "x">>, <<>>, <<"0", "8", "0">>,
      <<"9", "9", "9", "9", "9", "9">>, <<"h">> }

\* Strings with no colon, with one and with two.
DnsNames ==
    HostTexts
    \cup { h \o <<":">> \o p : h \in HostTexts, p \in PortTexts }
    \cup { h \o <<":">> \o p \o <<":">> \o q :
              h \in HostTexts, p \in PortTexts, q \in PortTexts }

\* parse_dns_name(dns_name) is called and returns.
Parse ==
    /\ parsing.pc = "called"
    /\ parsing' = [parsing EXCEPT !.pc = "returned",
                                  !.result = parse_dns_name(parsing.dns_name)]
    /\ UNCHANGED <<sessionVars, exchangeVars, storeVars, jobVars, transcriptVars, concurrentVars>>

NextParse == Parse

\* bincode::serialize(&RevealMsg): each field as its length followed by its bytes.
serialize(reveal) ==
    <<Len(reveal.dns_name)>> \o reveal.dns_name
        \o <<Len(reveal.cert_path)>> \o reveal.cert_path

\* Sha256::digest, taken collision-free: the digest names the bytes digested.
Sha256(bytes) == <<"sha256", bytes>>

\* The RevealMsg an honest party i may hold: a SocketAddr rendered as host:port
\* (IPv4) or as [::1]:port (IPv6), and its certificate path.
HonestReveals(i) ==
    { [dns_name |-> <<"h", ":", "9", DigitOf(i)>>, cert_path |-> <<"c", DigitOf(i)>>],
      [dns_name |-> <<"[", ":", ":", "1", "]", ":", "9", DigitOf(i)>>,
       cert_path |-> <<"c", DigitOf(i)>>] }

\* What a dishonest party may put in a Reveal and in a Commit: any reveal, and
\* the digest of any reveal (of the one it sends, or of another one).
AdvReveals ==
    { [dns_name |-> <<"e", ":", "7">>, cert_path |-> <<"x">>],
      [dns_name |-> <<"e", ":", "8">>, cert_path |-> <<"x">>],
      [dns_name |-> <<"e">>, cert_path |-> <<"x">>] }

AdvCommits == { Sha256(serialize(r)) : r \in AdvReveals }

\* The mutated entry: the local id in place of the sender's index.
NetworkPartyConfigLocalId(i, party_idx, address, cert_path) ==
    [id |-> i, dns_name |-> address, cert_path |-> cert_path]

\* NetworkPartyConfig { id: party_idx as usize, dns_name, cert_path } built by
\* party i for party_idx.
NetworkPartyConfig(i, party_idx, address, cert_path) ==
    [id |-> party_idx, dns_name |-> address, cert_path |-> cert_path]

\* RoundMsgs::into_iter_indexed of what party i of nn collected in a round:
\* the (party_idx, msg_id, msg) of every sender other than i, by ascending
\* index.
RECURSIVE IndexedFrom(_, _, _, _, _)
IndexedFrom(i, nn, j, round, msgs) ==
    IF j >= nn THEN <<>>
    ELSE IF j = i THEN IndexedFrom(i, nn, j + 1, round, msgs)
    ELSE <<[party_idx |-> j, msg_id |-> MsgId(round, j), msg |-> msgs[j]]>>
             \o IndexedFrom(i, nn, j + 1, round, msgs)

into_iter_indexed(i, nn, round, msgs) == IndexedFrom(i, nn, 0, round, msgs)

Min(a, b) == IF a <= b THEN a ELSE b

\* The mutated pairing: the k-th Commit with the k-th Reveal from the end.
zip_crossed(a, b) ==
    [k \in 1..Min(Len(a), Len(b)) |-> <<a[k], b[Min(Len(a), Len(b)) + 1 - k]>>]

\* Iterator::zip: the k-th element of one with the k-th element of the other.
zip(a, b) == [k \in 1..Min(Len(a), Len(b)) |-> <<a[k], b[k]>>]

\* The verification loop of party i over the zipped rounds, from the k-th
\* pair on.
RECURSIVE VerifyFrom(_, _, _, _, _)
VerifyFrom(i, k, pairs, guilty_parties, party_configs) ==
    IF k > Len(pairs)
    THEN IF guilty_parties = <<>>
         THEN [kind |-> "Ok", party_configs |-> party_configs,
               guilty_parties |-> <<>>]
         ELSE [kind |-> "CommitmentMismatch", party_configs |-> <<>>,
               guilty_parties |-> guilty_parties]
    ELSE LET party_idx == pairs[k][1].party_idx
             commit_msg_id == pairs[k][1].msg_id
             commit == pairs[k][1].msg
             reveal_msg_id == pairs[k][2].msg_id
             revealed == pairs[k][2].msg
         IN  IF party_idx = i
             THEN VerifyFrom(i, k + 1, pairs, guilty_parties, party_configs)
             ELSE IF commit # Sha256(serialize(revealed))
             THEN VerifyFrom(i, k + 1, pairs,
                             Append(guilty_parties,
                                    Blame(party_idx, commit_msg_id, reveal_msg_id)),
                             party_configs)
             ELSE IF ~parse_dns_name(revealed.dns_name).ok
             THEN [kind |-> "InvalidDnsName", party_configs |-> <<>>,
                   guilty_parties |-> <<>>]
             ELSE VerifyFrom(i, k + 1, pairs, guilty_parties,
                             (party_idx :> NetworkPartyConfig(i, party_idx,
                                       Address(parse_dns_name(revealed.dns_name)),
                                       revealed.cert_path)) @@ party_configs)

\* The mutated local entry: the local dns_name is parsed without the `?`, a
\* failed parse giving the default address.
mpc_config_exchange_unchecked_local(i, nn, local, commits, reveals) ==
    VerifyFrom(i, 1,
               zip(into_iter_indexed(i, nn, "commit", commits),
                   into_iter_indexed(i, nn, "reveal", reveals)),
               <<>>,
               i :> NetworkPartyConfig(i, i,
                       Address(parse_dns_name(local.dns_name)),
                       local.cert_path))

\* mpc_config_exchange(party, i, n, local_config) from the end of round 2 on:
\* the local entry, the verification loop, the result.
mpc_config_exchange(i, nn, local, commits, reveals) ==
    IF ~parse_dns_name(local.dns_name).ok
    THEN [kind |-> "InvalidDnsName", party_configs |-> <<>>,
          guilty_parties |-> <<>>]
    ELSE VerifyFrom(i, 1,
                    zip(into_iter_indexed(i, nn, "commit", commits),
                        into_iter_indexed(i, nn, "reveal", reveals)),
                    <<>>,
                    i :> NetworkPartyConfig(i, i,
                            Address(parse_dns_name(local.dns_name)),
                            local.cert_path))

\* The mutated return: the success map is returned although blames are held.
ExchangeOutcomeDespiteBlames(i, commits, reveals) ==
    IF ~parse_dns_name(local_config[i].dns_name).ok
    THEN [kind |-> "InvalidDnsName", party_configs |-> <<>>,
          guilty_parties |-> <<>>]
    ELSE LET own == i :> NetworkPartyConfig(i, i,
                            Address(parse_dns_name(local_config[i].dns_name)),
                            local_config[i].cert_path)
             r == VerifyFrom(i, 1,
                             zip(into_iter_indexed(i, n, "commit", commits),
                                 into_iter_indexed(i, n, "reveal", reveals)),
                             <<>>, own)
         IN  IF r.kind = "CommitmentMismatch"
             THEN [kind |-> "Ok", party_configs |-> own, guilty_parties |-> <<>>]
             ELSE r

\* What mpc_config_exchange returns to party i once both rounds completed.
ExchangeOutcome(i, commits, reveals) ==
    mpc_config_exchange(i, n, local_config[i], commits, reveals)

\* Party i broadcasts Commit(Sha256(bincode(local_config))).
SendCommit(i) ==
    /\ i \in Honest
    /\ xpc[i] = "start"
    /\ xpc' = [xpc EXCEPT ![i] = "round1"]
    /\ UNCHANGED <<n, dishonest, local_config, commitments, revealed_configs,
                   result, sessionVars, storeVars, jobVars, transcriptVars, concurrentVars, parseVars>>

SentCommit(j) == j \in Honest /\ xpc[j] \in {"round1", "round2", "done", "failed2"}

\* The mutated order: the Reveal goes out only after rounds.complete(round2).
SentRevealAfterRound2(j) == j \in Honest /\ xpc[j] \in {"done"}

SentReveal(j) == j \in Honest /\ xpc[j] \in {"round2", "done", "failed2"}

\* rounds.complete(round1) returns to party i: one Commit from every other
\* party (a dishonest sender chooses what this receiver gets); then party i
\* broadcasts its Reveal.
CompleteRound1(i) ==
    /\ i \in Honest
    /\ xpc[i] = "round1"
    /\ \A j \in Honest \ {i} : SentCommit(j)
    /\ \E adv \in [dishonest -> AdvCommits] :
          commitments' = [commitments EXCEPT ![i] =
              [j \in AllParties |->
                  IF j \in dishonest THEN adv[j]
                  ELSE IF j \in Honest \ {i}
                  THEN Sha256(serialize(local_config[j]))
                  ELSE NoMsg]]
    /\ xpc' = [xpc EXCEPT ![i] = "round2"]
    /\ UNCHANGED <<n, dishonest, local_config, revealed_configs, result,
                   sessionVars, storeVars, jobVars, transcriptVars, concurrentVars, parseVars>>

\* rounds.complete(round2) returns to party i: one Reveal from every other
\* party; party i verifies them against the commitments and returns.
CompleteRound2(i) ==
    /\ i \in Honest
    /\ xpc[i] = "round2"
    /\ \A j \in Honest \ {i} : SentReveal(j)
    /\ \E adv \in [dishonest -> AdvReveals] :
          LET reveals == [j \in AllParties |->
                            IF j \in dishonest THEN adv[j]
                            ELSE IF j \in Honest \ {i} THEN local_config[j]
                            ELSE NoMsg]
          IN  /\ revealed_configs' = [revealed_configs EXCEPT ![i] = reveals]
              /\ result' = [result EXCEPT ![i] =
                               ExchangeOutcome(i, commitments[i], reveals)]
    /\ xpc' = [xpc EXCEPT ![i] = "done"]
    /\ UNCHANGED <<n, dishonest, local_config, commitments, sessionVars, storeVars, jobVars, transcriptVars, concurrentVars, parseVars>>

\* A broadcast send or a rounds.complete fails: ExchangeRoundBasedError.
TransportError(i) ==
    /\ i \in Honest
    /\ xpc[i] \in {"start", "round1", "round2"}
    /\ xpc' = [xpc EXCEPT ![i] =
                  IF xpc[i] = "round2" THEN "failed2"
                  ELSE IF xpc[i] = "round1" THEN "failed1" ELSE "failed0"]
    /\ result' = [result EXCEPT ![i] =
                     [NoResult EXCEPT !.kind = "ExchangeRoundBasedError"]]
    /\ UNCHANGED <<n, dishonest, local_config, commitments, revealed_configs,
                   sessionVars, storeVars, jobVars, transcriptVars, concurrentVars, parseVars>>

NextExchange ==
    \/ \E i \in AllParties : SendCommit(i)
    \/ \E i \in AllParties : CompleteRound1(i)
    \/ \E i \in AllParties : CompleteRound2(i)
    \/ \E i \in AllParties : TransportError(i)

(***************************************************************************)
(* MPC Session Manager (network.rs)                                        *)
(***************************************************************************)
Calls == 1..MaxCalls

Sessions == {"s1", "s2"}

LocalKey == "kA"

\* Participant lists a caller may pass: too short, without the local key,
\* and a valid one that has the local key at index 1.
ParticipantLists ==
    { <<"kA">>, <<"kB", "kC">>, <<"kB", "kA">> }

NoHandle == 0

NoIndex == -1

IdleCall ==
    [ pc |-> "idle", sid |-> "s1", parts |-> <<>>, ret |-> NoHandle,
      handler |-> NoHandle, err |-> "none", msg |-> "", exchange |-> NoResult,
      parties |-> <<>>, ranExchange |-> FALSE,
      ranMesh |-> FALSE, wrote |-> FALSE, prior |-> {},
      afterFailure |-> FALSE, guard |-> "none", exchanges |-> 0,
      meshes |-> 0 ]

\* ordered_participants.iter().position(|pk| pk == local_public_key)
position(parts, key) ==
    IF \E k \in 1..Len(parts) : parts[k] = key
    THEN (CHOOSE k \in 1..Len(parts) :
              parts[k] = key /\ \A m \in 1..(k - 1) : parts[m] # key) - 1
    ELSE NoIndex

\* Handles that establish calls for session s have returned so far.
Returned(s) ==
    { calls[d].ret : d \in {e \in Calls : calls[e].pc = "ok" /\ calls[e].sid = s} }

\* Whether some establish call for session s has returned an error so far.
Failed(s) == \E d \in Calls : calls[d].pc = "err" /\ calls[d].sid = s

InFlight(c) == calls[c].pc \in {"exchange", "mesh", "insert"}

\* The call record of establish_mpc_session(s, p) at its entry.
Invoked(s, p) ==
    [IdleCall EXCEPT !.pc = "read", !.sid = s, !.parts = p,
                     !.prior = Returned(s), !.afterFailure = Failed(s)]

\* A job invokes establish_mpc_session(session_instance_id, ordered_participants).
Invoke(c, s, p) ==
    /\ calls[c].pc = "idle"
    /\ \A d \in Calls : d < c => calls[d].pc # "idle"
    /\ calls' = [calls EXCEPT ![c] = Invoked(s, p)]
    /\ UNCHANGED <<established_handlers, nextHandle, exchangeVars, transcriptVars, concurrentVars, parseVars, storeVars, jobVars>>

TooFewParticipants == "MPC requires at least 2 participants"

LocalNodeNotFound == "Local node not found in participant list"

\* The synchronous prefix with the participant count compared against 1.
BeginOutcomeCountOffByOne(c) ==
    LET s == calls[c].sid
        p == calls[c].parts
    IN  IF established_handlers[s] # NoHandle
        THEN [calls[c] EXCEPT !.pc = "ok", !.ret = established_handlers[s]]
        ELSE IF Len(p) < 1
        THEN [calls[c] EXCEPT !.pc = "err", !.err = "ConfigError",
                              !.msg = TooFewParticipants, !.parts = <<>>]
        ELSE IF position(p, LocalKey) = NoIndex
        THEN [calls[c] EXCEPT !.pc = "err", !.err = "ConfigError",
                              !.msg = LocalNodeNotFound, !.parts = <<>>]
        ELSE [calls[c] EXCEPT !.pc = "exchange", !.ranExchange = TRUE,
                              !.exchanges = @ + 1]

\* The synchronous prefix with an absent local key taken as party index 0.
BeginOutcomeDefaultIndex(c) ==
    LET s == calls[c].sid
        p == calls[c].parts
    IN  IF established_handlers[s] # NoHandle
        THEN [calls[c] EXCEPT !.pc = "ok", !.ret = established_handlers[s]]
        ELSE IF Len(p) < 2
        THEN [calls[c] EXCEPT !.pc = "err", !.err = "ConfigError",
                              !.msg = TooFewParticipants, !.parts = <<>>]
        ELSE [calls[c] EXCEPT !.pc = "exchange", !.ranExchange = TRUE,
                              !.exchanges = @ + 1]

\* The synchronous prefix with the read guard bound to a local that lives to
\* the end of the function.
BeginOutcomeHoldingGuard(c) ==
    LET s == calls[c].sid
        p == calls[c].parts
    IN  IF established_handlers[s] # NoHandle
        THEN [calls[c] EXCEPT !.pc = "ok", !.ret = established_handlers[s]]
        ELSE IF Len(p) < 2
        THEN [calls[c] EXCEPT !.pc = "err", !.err = "ConfigError",
                              !.msg = TooFewParticipants, !.parts = <<>>]
        ELSE IF position(p, LocalKey) = NoIndex
        THEN [calls[c] EXCEPT !.pc = "err", !.err = "ConfigError",
                              !.msg = LocalNodeNotFound, !.parts = <<>>]
        ELSE [calls[c] EXCEPT !.pc = "exchange", !.ranExchange = TRUE,
                              !.exchanges = @ + 1, !.guard = "read"]

\* BeginOutcome with the participant checks moved in front of the cache read.
BeginOutcomeValidatingFirst(c) ==
    LET s == calls[c].sid
        p == calls[c].parts
    IN  IF Len(p) < 2
        THEN [calls[c] EXCEPT !.pc = "err", !.err = "ConfigError",
                              !.msg = TooFewParticipants, !.parts = <<>>]
        ELSE IF position(p, LocalKey) = NoIndex
        THEN [calls[c] EXCEPT !.pc = "err", !.err = "ConfigError",
                              !.msg = LocalNodeNotFound, !.parts = <<>>]
        ELSE IF established_handlers[s] # NoHandle
        THEN [calls[c] EXCEPT !.pc = "ok", !.ret = established_handlers[s]]
        ELSE [calls[c] EXCEPT !.pc = "exchange", !.ranExchange = TRUE,
                              !.exchanges = @ + 1, !.guard = "none"]

\* Result of the synchronous prefix of establish_mpc_session: the cache read,
\* the participant checks and the start of the config exchange.
BeginOutcome(c) ==
    LET s == calls[c].sid
        p == calls[c].parts
    IN  IF established_handlers[s] # NoHandle
        THEN [calls[c] EXCEPT !.pc = "ok", !.ret = established_handlers[s]]
        ELSE IF Len(p) < 2
        THEN [calls[c] EXCEPT !.pc = "err", !.err = "ConfigError",
                              !.msg = TooFewParticipants, !.parts = <<>>]
        ELSE IF position(p, LocalKey) = NoIndex
        THEN [calls[c] EXCEPT !.pc = "err", !.err = "ConfigError",
                              !.msg = LocalNodeNotFound, !.parts = <<>>]
        ELSE [calls[c] EXCEPT !.pc = "exchange", !.ranExchange = TRUE,
                              !.exchanges = @ + 1, !.guard = "none"]

\* established_handlers.read().await is granted while no task holds the write
\* guard; .write().await while no other task holds any guard.
CanRead(c) == \A d \in Calls \ {c} : calls[d].guard # "write"

CanWrite(c) == \A d \in Calls \ {c} : calls[d].guard = "none"

Begin(c) ==
    /\ calls[c].pc = "read"
    /\ CanRead(c)
    /\ calls' = [calls EXCEPT ![c] = BeginOutcome(c)]
    /\ UNCHANGED <<established_handlers, nextHandle, exchangeVars, transcriptVars, concurrentVars, parseVars, storeVars, jobVars>>

\* An error of establish_mpc_session: its kind and its payload.
Err(kind, msg) == [kind |-> kind, msg |-> msg]

\* An error return of establish_mpc_session (the `?` exits): nothing is cached.
ReturnErrCaching(c, e) ==
    /\ calls' = [calls EXCEPT ![c] =
                    [calls[c] EXCEPT !.pc = "err", !.err = e.kind, !.msg = e.msg,
                                     !.parts = <<>>, !.wrote = TRUE]]
    /\ established_handlers' =
          [established_handlers EXCEPT ![calls[c].sid] = nextHandle]
    /\ nextHandle' = nextHandle + 1
    /\ UNCHANGED <<exchangeVars, transcriptVars, concurrentVars, parseVars, storeVars, jobVars>>

ReturnErr(c, e) ==
    /\ calls' = [calls EXCEPT ![c] =
                    [calls[c] EXCEPT !.pc = "err", !.err = e.kind, !.msg = e.msg,
                                     !.parts = <<>>]]
    /\ UNCHANGED <<established_handlers, nextHandle, exchangeVars, transcriptVars, concurrentVars, parseVars, storeVars, jobVars>>

\* What mpc_config_exchange can return to party i of nn: the result of
\* verifying what the peers sent (each peer an honest node's messages or
\* messages of its choice), or a transport error.
ExchangeResults(i, nn) ==
    LET peers == (0..(nn - 1)) \ {i}
        delivered(m) == [j \in AllParties |-> IF j \in peers THEN m[j] ELSE NoMsg]
    IN  { [NoResult EXCEPT !.kind = "ExchangeRoundBasedError"] }
        \cup
        { mpc_config_exchange(i, nn, local, delivered(cm), delivered(rv)) :
              local \in HonestReveals(i),
              cm \in [peers -> UNION {{Sha256(serialize(r)) : r \in HonestReveals(j)} : j \in peers}
                                \cup AdvCommits],
              rv \in [peers -> UNION {HonestReveals(j) : j \in peers} \cup AdvReveals] }

\* The (local_party_index, n) pairs a call passes to mpc_config_exchange.
ExchangeEntries ==
    UNION { { <<i, Len(p)>> : i \in 0..(Len(p) - 1) } :
               p \in { q \in ParticipantLists : Len(q) >= 2 } }

ExchangeResultsOf == [e \in ExchangeEntries |-> ExchangeResults(e[1], e[2])]

\* What mpc_config_exchange can return to call c.
ExchangeReturns(c) ==
    LET e == <<position(calls[c].parts, LocalKey), Len(calls[c].parts)>>
    IN  IF e \in ExchangeEntries THEN ExchangeResultsOf[e]
        ELSE { [NoResult EXCEPT !.kind = "ExchangeRoundBasedError"] }

\* The errors mpc_config_exchange can return to call c: a commitment mismatch
\* blaming a peer, an endpoint that does not parse, a transport error.
ExchangeErrors(c) == { r \in ExchangeReturns(c) : r.kind # "Ok" }

\* The verified maps mpc_config_exchange can return to call c.
ExchangeSuccesses(c) == { r \in ExchangeReturns(c) : r.kind = "Ok" }

\* parties.sort_by_key(|p| p.id): the ids of the entries of the verified map,
\* ascending.
RECURSIVE SortedIds(_)
SortedIds(ids) ==
    IF ids = {} THEN <<>>
    ELSE LET least == CHOOSE x \in ids : \A y \in ids : x <= y
         IN  <<least>> \o SortedIds(ids \ {least})

parties_of(verified_configs) ==
    SortedIds({ verified_configs[j].id : j \in DOMAIN verified_configs })

\* .map_err(|e| Error::MpcProtocolError(format!("Config exchange failed: {:?}", e)))
map_exchange_err(e) ==
    Err("MpcProtocolError", <<"Config exchange failed: ", e>>)

\* The mutated failure: the exchange is run a second time after it failed.
ExchangeFailedRetrying(c, e) ==
    /\ calls[c].pc = "exchange"
    /\ e \in ExchangeErrors(c)
    /\ calls' = [calls EXCEPT ![c] =
                    IF calls[c].exchanges < 2
                    THEN [calls[c] EXCEPT !.exchanges = @ + 1]
                    ELSE [calls[c] EXCEPT !.pc = "err", !.exchange = e,
                                          !.err = map_exchange_err(e).kind,
                                          !.msg = map_exchange_err(e).msg,
                                          !.parts = <<>>]]
    /\ UNCHANGED <<established_handlers, nextHandle, exchangeVars, transcriptVars, concurrentVars, parseVars, storeVars, jobVars>>

\* mpc_config_exchange(...).await returned the error e.
ExchangeFailed(c, e) ==
    /\ calls[c].pc = "exchange"
    /\ e \in ExchangeErrors(c)
    /\ calls' = [calls EXCEPT ![c] =
                    [calls[c] EXCEPT !.pc = "err", !.exchange = e,
                                     !.err = map_exchange_err(e).kind,
                                     !.msg = map_exchange_err(e).msg,
                                     !.parts = <<>>]]
    /\ UNCHANGED <<established_handlers, nextHandle, exchangeVars, transcriptVars, concurrentVars, parseVars, storeVars, jobVars>>

\* mpc_config_exchange returned the verified configs, but
\* NetworkConfig::try_from(config) failed.
ConvertFailed(c) ==
    /\ calls[c].pc = "exchange"
    /\ ExchangeSuccesses(c) # {}
    /\ ReturnErr(c, Err("ConfigError", ""))

\* The mutated start: MpcNetworkHandler::establish is started without waiting
\* for the result of the exchange.
MeshStartedUnawaited(c) ==
    /\ calls[c].pc = "exchange"
    /\ calls' = [calls EXCEPT ![c] =
                    [calls[c] EXCEPT !.pc = "mesh", !.ranMesh = TRUE,
                                     !.meshes = @ + 1, !.parts = <<>>]]
    /\ UNCHANGED <<established_handlers, nextHandle, exchangeVars, transcriptVars, concurrentVars, parseVars, storeVars, jobVars>>

\* mpc_config_exchange returned the verified configs, the config converted and
\* MpcNetworkHandler::establish was started with the sorted parties.
MeshStarted(c) ==
    /\ calls[c].pc = "exchange"
    /\ \E verified_configs \in ExchangeSuccesses(c) :
          calls' = [calls EXCEPT ![c] =
                       [calls[c] EXCEPT !.pc = "mesh", !.ranMesh = TRUE,
                                        !.meshes = @ + 1,
                                        !.exchange = [NoResult EXCEPT !.kind = "Ok"],
                                        !.parties = parties_of(verified_configs.party_configs),
                                        !.parts = <<>>]]
    /\ UNCHANGED <<established_handlers, nextHandle, exchangeVars, transcriptVars, concurrentVars, parseVars, storeVars, jobVars>>

\* MpcNetworkHandler::establish(...).await failed.
MeshFailed(c) ==
    /\ calls[c].pc = "mesh"
    /\ ReturnErr(c, Err("NetworkError", ""))

\* MpcNetworkHandler::establish succeeded; handler_arc = Arc::new(handler).
MeshEstablished(c) ==
    /\ calls[c].pc = "mesh"
    /\ calls' = [calls EXCEPT ![c] =
                    [calls[c] EXCEPT !.pc = "insert", !.handler = nextHandle]]
    /\ nextHandle' = nextHandle + 1
    /\ UNCHANGED <<established_handlers, exchangeVars, transcriptVars, concurrentVars, parseVars, storeVars, jobVars>>

\* established_handlers.write().await.insert(session_id, handler_arc.clone())
Insert(cache, s, h) == [cache EXCEPT ![s] = h]

CacheInsert(c) ==
    /\ calls[c].pc = "insert"
    /\ CanWrite(c)
    /\ established_handlers' =
          Insert(established_handlers, calls[c].sid, calls[c].handler)
    /\ calls' = [calls EXCEPT ![c] =
                    [calls[c] EXCEPT !.pc = "ok", !.ret = calls[c].handler,
                                     !.wrote = TRUE, !.parts = <<>>]]
    /\ UNCHANGED <<nextHandle, exchangeVars, transcriptVars, concurrentVars, parseVars, storeVars, jobVars>>

\* The .await points of establish_mpc_session after the cache read: the
\* exchange (its two broadcasts and two rounds.complete), the mesh
\* establishment and the write-lock acquisition.
Suspended(c) == calls[c].pc \in {"exchange", "mesh", "insert"}

\* The call record after its future is dropped: the locals of the future,
\* lock guards included, are dropped with it.
Dropped(c) ==
    [IdleCall EXCEPT !.pc = "cancelled", !.sid = calls[c].sid]

\* The mutated drop: a handler the dropped call had built is put in the cache.
CancelCaching(c) ==
    /\ Suspended(c)
    /\ calls' = [calls EXCEPT ![c] = Dropped(c)]
    /\ established_handlers' =
          IF calls[c].handler # NoHandle
          THEN Insert(established_handlers, calls[c].sid, calls[c].handler)
          ELSE established_handlers
    /\ UNCHANGED <<nextHandle, exchangeVars, transcriptVars, concurrentVars, parseVars, storeVars, jobVars>>

\* The caller drops the future of establish_mpc_session at an .await point.
Cancel(c) ==
    /\ Suspended(c)
    /\ calls' = [calls EXCEPT ![c] = Dropped(c)]
    /\ UNCHANGED <<established_handlers, nextHandle, exchangeVars, transcriptVars, concurrentVars, parseVars, storeVars, jobVars>>

NextSession ==
    \/ \E c \in Calls, s \in Sessions, p \in ParticipantLists : Invoke(c, s, p)
    \/ \E c \in Calls : Begin(c)
    \/ \E c \in Calls : \E e \in ExchangeErrors(c) : ExchangeFailed(c, e)
    \/ \E c \in Calls : ConvertFailed(c)
    \/ \E c \in Calls : MeshStarted(c)
    \/ \E c \in Calls : MeshFailed(c)
    \/ \E c \in Calls : MeshEstablished(c)
    \/ \E c \in Calls : CacheInsert(c)

\* The session manager with callers that may drop the future of a call.
NextSessionCancel ==
    \/ NextSession
    \/ \E c \in Calls : Cancel(c)

\* The exchange over a transport that delivers every broadcast to every other
\* party and reports no error.
NextExchangeDelivered ==
    \/ \E i \in AllParties : SendCommit(i)
    \/ \E i \in AllParties : CompleteRound1(i)
    \/ \E i \in AllParties : CompleteRound2(i)

\* The steps of CompleteRound2(i): rounds.complete(round2) returns to party i
\* and the party runs to its return.
LeavesRound2(i) ==
    /\ i \in Honest
    /\ xpc[i] = "round2"
    /\ \A j \in Honest \ {i} : SentReveal(j)
    /\ xpc' = [xpc EXCEPT ![i] = "done"]

\* Every party's task is polled until it returns; a rounds.complete whose
\* messages have all been broadcast returns.
ExchangeFairness ==
    \A i \in AllParties :
        /\ WF_vars(SendCommit(i))
        /\ WF_vars(CompleteRound1(i))
        /\ WF_xpc(LeavesRound2(i))

(***************************************************************************)
(* Party Transcript as mpc_config_exchange drives it (p2p/mod.rs)          *)
(***************************************************************************)
Rounds == {"commit", "reveal"}

\* No router: the party has not entered mpc_config_exchange.
NoRounds ==
    [i |-> 0, pc |-> "off", silent |-> {}, incoming |-> {}, completed |-> <<>>,
     early |-> FALSE]

\* rounds.listen(incoming) on party i: nothing delivered, nothing handed out.
\* The peers in silent have dropped, or their task was cancelled: they send
\* nothing.
Listening(i, silent) == [NoRounds EXCEPT !.i = i, !.pc = "start", !.silent = silent]

Peers == Parties \ {rounds.i}

\* The transport delivers the message peer j sent in a round; the router keeps
\* it until the round is completed. A Reveal may arrive while a Commit of
\* another peer is still under way.
Incoming(round, j) ==
    /\ rounds.pc \in {"start", "round1", "round2"}
    /\ j \in Peers \ rounds.silent
    /\ <<round, j>> \notin rounds.incoming
    /\ rounds' = [rounds EXCEPT
                     !.incoming = @ \cup {<<round, j>>},
                     !.early = @ \/ (/\ round = "reveal"
                                     /\ \E k \in Peers : <<"commit", k>> \notin rounds.incoming)]
    /\ UNCHANGED <<sessionVars, exchangeVars, storeVars, jobVars, concurrentVars, parseVars>>

\* outgoing.send(Outgoing::broadcast(Commit(..))).await
BroadcastCommit ==
    /\ rounds.pc = "start"
    /\ rounds' = [rounds EXCEPT !.pc = "round1"]
    /\ UNCHANGED <<sessionVars, exchangeVars, storeVars, jobVars, concurrentVars, parseVars>>

\* The messages of a round in the order complete() returns them.
RECURSIVE RoundMsgsFrom(_, _)
RoundMsgsFrom(round, j) ==
    IF j >= n THEN <<>>
    ELSE IF j = rounds.i THEN RoundMsgsFrom(round, j + 1)
    ELSE <<(<<round, j>>)>> \o RoundMsgsFrom(round, j + 1)

\* The mutated wait: a round is completed as soon as its messages are there,
\* whichever await the party is at.
CanCompleteAtAnyAwait(round) ==
    /\ rounds.pc \in {"round1", "round2"}
    /\ \A k \in 1..Len(rounds.completed) : rounds.completed[k][1] # round
    /\ \A j \in Peers : <<round, j>> \in rounds.incoming

\* rounds.complete(round) returns: the party is at that await and one message
\* of the round from every peer has been delivered.
CanComplete(round) ==
    /\ rounds.pc = (IF round = "commit" THEN "round1" ELSE "round2")
    /\ \A j \in Peers : <<round, j>> \in rounds.incoming

\* rounds.complete(round1).await returns, then the Reveal is broadcast;
\* rounds.complete(round2).await returns, then the party verifies and returns.
Complete(round) ==
    /\ CanComplete(round)
    /\ rounds' = [rounds EXCEPT
                     !.completed = @ \o RoundMsgsFrom(round, 0),
                     !.pc = IF round = "commit" THEN "round2" ELSE "done"]
    /\ UNCHANGED <<sessionVars, exchangeVars, storeVars, jobVars, concurrentVars, parseVars>>

\* A broadcast send or a rounds.complete reports an error of the transport:
\* mpc_config_exchange returns ExchangeRoundBasedError.
RoundsError ==
    /\ rounds.pc \in {"start", "round1", "round2"}
    /\ rounds' = [rounds EXCEPT !.pc = "failed"]
    /\ UNCHANGED <<sessionVars, exchangeVars, storeVars, jobVars, concurrentVars, parseVars>>

NextTranscript ==
    \/ \E round \in Rounds : \E j \in AllParties : Incoming(round, j)
    \/ BroadcastCommit
    \/ \E round \in Rounds : Complete(round)
    \/ RoundsError

\* The task running mpc_config_exchange is polled until it returns, and the
\* transport delivers what the peers that are alive send. Nothing obliges the
\* transport to report an error.
TranscriptFairness ==
    /\ WF_vars(BroadcastCommit)
    /\ WF_vars(\E round \in Rounds : Complete(round))
    /\ WF_vars(\E round \in Rounds : \E j \in AllParties : Incoming(round, j))

(***************************************************************************)
(* Circuit Store (state.rs)                                                *)
(***************************************************************************)
Ids == {"c1"}

artifact_filename == "circuit_artifact.r1cs"

PROVING_KEY_FILENAME == "proving.key"

VERIFICATION_KEY_FILENAME == "verification.key"

FileNames == {artifact_filename, PROVING_KEY_FILENAME, VERIFICATION_KEY_FILENAME}

NoRow == <<>>

NoFile == "<absent>"

\* What fs::write leaves behind when it fails after opening the file.
Truncated == ""

NoName == "<none>"

\* Path::file_name(): the last component, unless the path is empty or ends in "..".
file_name(path) ==
    IF path = <<>> \/ path[Len(path)] = ".." THEN NoName ELSE path[Len(path)]

\* The shapes of the three paths a caller may put in a CircuitInfo for id:
\* bare file names, paths already relative to the artifacts directory, two
\* paths with one file name, and an artifact path, a proving-key path and a
\* verification-key path without a file name (ending in ".." or empty).
PathShapes(id) ==
    { <<<<artifact_filename>>, <<PROVING_KEY_FILENAME>>, <<VERIFICATION_KEY_FILENAME>>>>,
      <<<<id, artifact_filename>>, <<id, PROVING_KEY_FILENAME>>,
        <<id, VERIFICATION_KEY_FILENAME>>>>,
      <<<<PROVING_KEY_FILENAME>>, <<PROVING_KEY_FILENAME>>, <<VERIFICATION_KEY_FILENAME>>>>,
      <<<<"..">>, <<PROVING_KEY_FILENAME>>, <<VERIFICATION_KEY_FILENAME>>>>,
      <<<<artifact_filename>>, <<>>, <<VERIFICATION_KEY_FILENAME>>>>,
      <<<<artifact_filename>>, <<PROVING_KEY_FILENAME>>, <<id, "..">>>> }

CircuitInfo(id, backend, shape) ==
    [id |-> id, name |-> "test_circuit", circuit_type |-> "Circom",
     proving_backend |-> backend, artifact_path |-> shape[1],
     proving_key_path |-> shape[2], verification_key_path |-> shape[3],
     verifier_address |-> "0x00"]

\* The arguments of store_circuit: two registrations per id and path shape.
PutInputsFor(id) ==
    UNION { { [info |-> CircuitInfo(id, "Groth16", shape), artifact_data |-> "a1",
               proving_key_data |-> "p1", verification_key_data |-> "v1"],
              [info |-> CircuitInfo(id, "Plonk", shape), artifact_data |-> "a2",
               proving_key_data |-> "p2", verification_key_data |-> "v2"] }
            : shape \in PathShapes(id) }

PutInputs == UNION { PutInputsFor(id) : id \in Ids }

\* bincode::serialize(&CircuitInfo): the fields in declaration order.
serialize_info(info) ==
    <<info.id, info.name, info.circuit_type, info.proving_backend,
      info.artifact_path, info.proving_key_path, info.verification_key_path,
      info.verifier_address>>

\* bincode::deserialize::<CircuitInfo>
deserialize_info(bytes) ==
    [id |-> bytes[1], name |-> bytes[2], circuit_type |-> bytes[3],
     proving_backend |-> bytes[4], artifact_path |-> bytes[5],
     proving_key_path |-> bytes[6], verification_key_path |-> bytes[7],
     verifier_address |-> bytes[8]]

\* store_circuit: the info with its three paths rewritten to <id>/<file name>.
info_to_store(info) ==
    [info EXCEPT !.artifact_path = <<info.id, file_name(info.artifact_path)>>,
                 !.proving_key_path = <<info.id, file_name(info.proving_key_path)>>,
                 !.verification_key_path =
                     <<info.id, file_name(info.verification_key_path)>>]

NoOp == [kind |-> "none", pc |-> "done", args |-> <<>>, result |-> "none",
         value |-> <<>>]

Finish(kind, args, res, value) ==
    [kind |-> kind, pc |-> "done", args |-> args, result |-> res, value |-> value]

Ready == op.pc = "done"

\* No second thread is using the store.
NoConcurrent == [op |-> NoOp, start |-> <<>>]

\* get_circuit_info(id): the decoded row, or NoRow.
get_circuit_info(id) ==
    IF info_tree[id] = NoRow THEN NoRow ELSE deserialize_info(info_tree[id])

\* list_circuit_ids(): the keys of the tree.
list_circuit_ids == { id \in Ids : info_tree[id] # NoRow }

IoError == "IoError"

\* fs::read(artifacts_path.join(path))
read_file(path) ==
    IF path \in DOMAIN files /\ path[1] \in dirs /\ files[path] # NoFile
    THEN files[path]
    ELSE IoError

get_artifact_data(info) == read_file(info.artifact_path)

get_proving_key_data(info) == read_file(info.proving_key_path)

get_verification_key_data(info) == read_file(info.verification_key_path)

\* A mutated store_circuit that takes the three file names from the paths
\* before it calls create_dir_all.
PutBeginValidatingFirst(input) ==
    /\ Ready
    /\ IF \/ file_name(input.info.artifact_path) = NoName
          \/ file_name(input.info.proving_key_path) = NoName
          \/ file_name(input.info.verification_key_path) = NoName
       THEN /\ op' = Finish("put", input, "InvalidInput", <<>>)
            /\ dirs' = dirs
       ELSE /\ op' = [kind |-> "put", pc |-> "write_artifact", args |-> input,
                      result |-> "none", value |-> <<>>]
            /\ dirs' = dirs \cup {input.info.id}
    /\ UNCHANGED <<info_tree, durable_tree, files>>

\* store_circuit begins: create_dir_all succeeds, then the three file names
\* are taken from the paths.
PutBegin(input) ==
    /\ Ready
    /\ dirs' = dirs \cup {input.info.id}
    /\ op' = IF \/ file_name(input.info.artifact_path) = NoName
                \/ file_name(input.info.proving_key_path) = NoName
                \/ file_name(input.info.verification_key_path) = NoName
             THEN Finish("put", input, "InvalidInput", <<>>)
             ELSE [kind |-> "put", pc |-> "write_artifact", args |-> input,
                   result |-> "none", value |-> <<>>]
    /\ UNCHANGED <<info_tree, durable_tree, files>>

\* store_circuit begins and create_dir_all fails.
PutBeginFails(input) ==
    /\ Ready
    /\ op' = Finish("put", input, "IoError", <<>>)
    /\ UNCHANGED <<info_tree, durable_tree, dirs, files>>

PutStart(input) ==
    /\ PutBegin(input)
    /\ UNCHANGED <<sessionVars, exchangeVars, transcriptVars, concurrentVars, parseVars, jobVars>>

PutStartFails(input) ==
    /\ PutBeginFails(input)
    /\ UNCHANGED <<sessionVars, exchangeVars, transcriptVars, concurrentVars, parseVars, jobVars>>

\* A mutated store_circuit that writes the verification key into proving.key.
WriteTargetSwapped(o) ==
    LET stored == info_to_store(o.args.info)
    IN  CASE o.pc = "write_artifact" ->
                [path |-> stored.artifact_path, data |-> o.args.artifact_data,
                 next |-> "write_pk"]
          [] o.pc = "write_pk" ->
                [path |-> stored.proving_key_path,
                 data |-> o.args.verification_key_data, next |-> "write_vk"]
          [] o.pc = "write_vk" ->
                [path |-> stored.verification_key_path,
                 data |-> o.args.verification_key_data, next |-> "insert"]

\* The path and the data of the write at each position of store_circuit.
WriteTarget(o) ==
    LET stored == info_to_store(o.args.info)
    IN  CASE o.pc = "write_artifact" ->
                [path |-> stored.artifact_path, data |-> o.args.artifact_data,
                 next |-> "write_pk"]
          [] o.pc = "write_pk" ->
                [path |-> stored.proving_key_path, data |-> o.args.proving_key_data,
                 next |-> "write_vk"]
          [] o.pc = "write_vk" ->
                [path |-> stored.verification_key_path,
                 data |-> o.args.verification_key_data, next |-> "insert"]

Writing == op.kind = "put" /\ op.pc \in {"write_artifact", "write_pk", "write_vk"}

\* A mutated store_circuit that leaves a file that exists as it is.
PutWriteKeepingExisting ==
    /\ Writing
    /\ WriteTarget(op).path[1] \in dirs
    /\ files' = IF files[WriteTarget(op).path] # NoFile THEN files
                 ELSE [files EXCEPT ![WriteTarget(op).path] = WriteTarget(op).data]
    /\ op' = [op EXCEPT !.pc = WriteTarget(op).next]
    /\ UNCHANGED <<info_tree, durable_tree, dirs, sessionVars, exchangeVars, transcriptVars, concurrentVars, parseVars, jobVars>>

\* A mutated store_circuit that inserts the row before the verification key
\* is written.
PutWriteSkippingLast ==
    /\ Writing
    /\ WriteTarget(op).path[1] \in dirs
    /\ files' = [files EXCEPT ![WriteTarget(op).path] = WriteTarget(op).data]
    /\ op' = [op EXCEPT !.pc = IF op.pc = "write_pk" THEN "insert"
                                ELSE WriteTarget(op).next]
    /\ UNCHANGED <<info_tree, durable_tree, dirs, sessionVars, exchangeVars, transcriptVars, concurrentVars, parseVars, jobVars>>

\* fs::write(artifacts_path.join(rel_path), data) succeeds.
PutWrite ==
    /\ Writing
    /\ WriteTarget(op).path[1] \in dirs
    /\ files' = [files EXCEPT ![WriteTarget(op).path] = WriteTarget(op).data]
    /\ op' = [op EXCEPT !.pc = WriteTarget(op).next]
    /\ UNCHANGED <<info_tree, durable_tree, dirs, sessionVars, exchangeVars, transcriptVars, concurrentVars, parseVars, jobVars>>

\* fs::write fails: the file is untouched, or was opened and truncated.
PutWriteFails ==
    /\ Writing
    /\ \/ UNCHANGED files
       \/ /\ WriteTarget(op).path[1] \in dirs
          /\ files' = [files EXCEPT ![WriteTarget(op).path] = Truncated]
    /\ op' = Finish("put", op.args, "IoError", <<>>)
    /\ UNCHANGED <<info_tree, durable_tree, dirs, sessionVars, exchangeVars, transcriptVars, concurrentVars, parseVars, jobVars>>

\* info_tree.insert(info.id, bincode(info_to_store))
PutInsert ==
    /\ op.kind = "put" /\ op.pc = "insert"
    /\ info_tree' = [info_tree EXCEPT ![op.args.info.id] =
                        serialize_info(info_to_store(op.args.info))]
    /\ op' = [op EXCEPT !.pc = "flush"]
    /\ UNCHANGED <<durable_tree, dirs, files, sessionVars, exchangeVars, transcriptVars, concurrentVars, parseVars, jobVars>>

PutInsertFails ==
    /\ op.kind = "put" /\ op.pc = "insert"
    /\ op' = Finish("put", op.args, "StateError", <<>>)
    /\ UNCHANGED <<info_tree, durable_tree, dirs, files, sessionVars, exchangeVars, transcriptVars, concurrentVars, parseVars, jobVars>>

\* db.flush(): the tree reaches the disk.
PutFlush ==
    /\ op.kind = "put" /\ op.pc = "flush"
    /\ durable_tree' = info_tree
    /\ op' = Finish("put", op.args, "Ok", <<>>)
    /\ UNCHANGED <<info_tree, dirs, files, sessionVars, exchangeVars, transcriptVars, concurrentVars, parseVars, jobVars>>

PutFlushFails ==
    /\ op.kind = "put" /\ op.pc = "flush"
    /\ op' = Finish("put", op.args, "StateError", <<>>)
    /\ UNCHANGED <<info_tree, durable_tree, dirs, files, sessionVars, exchangeVars, transcriptVars, concurrentVars, parseVars, jobVars>>

\* A mutated remove_circuit that leaves the row in the tree.
RemoveStartKeepingRow(id) ==
    /\ Ready
    /\ op' = IF info_tree[id] = NoRow
             THEN Finish("remove", id, "None", <<>>)
             ELSE [kind |-> "remove", pc |-> "remove_dir", args |-> id,
                   result |-> "none", value |-> deserialize_info(info_tree[id])]
    /\ UNCHANGED <<info_tree, durable_tree, dirs, files, sessionVars, exchangeVars, transcriptVars, concurrentVars, parseVars, jobVars>>

\* remove_circuit begins: info_tree.remove(id) returns the old row, if any.
RemoveStart(id) ==
    /\ Ready
    /\ info_tree' = [info_tree EXCEPT ![id] = NoRow]
    /\ op' = IF info_tree[id] = NoRow
             THEN Finish("remove", id, "None", <<>>)
             ELSE [kind |-> "remove", pc |-> "remove_dir", args |-> id,
                   result |-> "none", value |-> deserialize_info(info_tree[id])]
    /\ UNCHANGED <<durable_tree, dirs, files, sessionVars, exchangeVars, transcriptVars, concurrentVars, parseVars, jobVars>>

RemoveStartFails(id) ==
    /\ Ready
    /\ op' = Finish("remove", id, "StateError", <<>>)
    /\ UNCHANGED <<info_tree, durable_tree, dirs, files, sessionVars, exchangeVars, transcriptVars, concurrentVars, parseVars, jobVars>>

\* A mutated remove_circuit that deletes the files and keeps the directory.
RemoveDirKeepingDir ==
    /\ op.kind = "remove" /\ op.pc = "remove_dir"
    /\ files' = [p \in Ids \X FileNames |->
                    IF p[1] = op.args THEN NoFile ELSE files[p]]
    /\ op' = [op EXCEPT !.pc = "flush"]
    /\ UNCHANGED <<info_tree, durable_tree, dirs, sessionVars, exchangeVars, transcriptVars, concurrentVars, parseVars, jobVars>>

\* if circuit_artifact_dir.exists() { fs::remove_dir_all(dir)? }
RemoveDir ==
    /\ op.kind = "remove" /\ op.pc = "remove_dir"
    /\ dirs' = dirs \ {op.args}
    /\ files' = [p \in Ids \X FileNames |->
                    IF p[1] = op.args THEN NoFile ELSE files[p]]
    /\ op' = [op EXCEPT !.pc = "flush"]
    /\ UNCHANGED <<info_tree, durable_tree, sessionVars, exchangeVars, transcriptVars, concurrentVars, parseVars, jobVars>>

\* fs::remove_dir_all fails after deleting some of the files.
RemoveDirFails ==
    /\ op.kind = "remove" /\ op.pc = "remove_dir"
    /\ op.args \in dirs
    /\ \E gone \in SUBSET FileNames :
          files' = [p \in Ids \X FileNames |->
                       IF p[1] = op.args /\ p[2] \in gone THEN NoFile ELSE files[p]]
    /\ op' = Finish("remove", op.args, "IoError", <<>>)
    /\ UNCHANGED <<info_tree, durable_tree, dirs, sessionVars, exchangeVars, transcriptVars, concurrentVars, parseVars, jobVars>>

RemoveFlush ==
    /\ op.kind = "remove" /\ op.pc = "flush"
    /\ durable_tree' = info_tree
    /\ op' = Finish("remove", op.args, "Some", op.value)
    /\ UNCHANGED <<info_tree, dirs, files, sessionVars, exchangeVars, transcriptVars, concurrentVars, parseVars, jobVars>>

RemoveFlushFails ==
    /\ op.kind = "remove" /\ op.pc = "flush"
    /\ op' = Finish("remove", op.args, "StateError", <<>>)
    /\ UNCHANGED <<info_tree, durable_tree, dirs, files, sessionVars, exchangeVars, transcriptVars, concurrentVars, parseVars, jobVars>>

\* The operation that returned just before a lookup began.
Summary(o) ==
    [kind |-> o.kind, result |-> o.result,
     args |-> IF o.kind = "put" THEN o.args ELSE <<>>]

\* What get_circuit_info(id) and the three reads on its result return.
ReadBack(id) ==
    IF get_circuit_info(id) = NoRow THEN <<>>
    ELSE [info |-> get_circuit_info(id),
          artifact |-> get_artifact_data(get_circuit_info(id)),
          proving_key |-> get_proving_key_data(get_circuit_info(id)),
          verification_key |-> get_verification_key_data(get_circuit_info(id))]

\* get_circuit_info(id), then get_artifact_data, get_proving_key_data and
\* get_verification_key_data on the info it returned.
Lookup(id) ==
    /\ Ready
    /\ op' = Finish("get", [id |-> id, after |-> Summary(op)],
                    IF get_circuit_info(id) = NoRow THEN "None" ELSE "Some",
                    ReadBack(id))
    /\ UNCHANGED <<info_tree, durable_tree, dirs, files, sessionVars, exchangeVars, transcriptVars, concurrentVars, parseVars, jobVars>>

\* sled's periodic flush of its dirty buffers (sled::open with the default
\* Config).
BackgroundFlush ==
    /\ durable_tree # info_tree
    /\ durable_tree' = info_tree
    /\ UNCHANGED <<info_tree, dirs, files, op, sessionVars, exchangeVars, transcriptVars, concurrentVars, parseVars, jobVars>>

\* The process dies and restarts: CircuitStore::new reopens the data
\* directory; the tree holds what had been flushed, the files what had been
\* written.
Crash ==
    /\ info_tree' = durable_tree
    /\ op' = NoOp
    /\ UNCHANGED <<durable_tree, dirs, files, sessionVars, exchangeVars, transcriptVars, concurrentVars, parseVars, jobVars>>

NextStore ==
    \/ \E input \in PutInputs : PutStart(input)
    \/ \E input \in PutInputs : PutStartFails(input)
    \/ PutWrite
    \/ PutWriteFails
    \/ PutInsert
    \/ PutInsertFails
    \/ PutFlush
    \/ PutFlushFails
    \/ \E id \in Ids : RemoveStart(id)
    \/ \E id \in Ids : RemoveStartFails(id)
    \/ RemoveDir
    \/ RemoveDirFails
    \/ RemoveFlush
    \/ RemoveFlushFails
    \/ \E id \in Ids : Lookup(id)
    \/ BackgroundFlush
    \/ Crash

\* The tree, the directories and the files, as the callers of the store see
\* them.
StoreImage == [info_tree |-> info_tree, dirs |-> dirs, files |-> files]

EmptyStore ==
    [info_tree |-> [id \in Ids |-> NoRow], dirs |-> {},
     files |-> [p \in Ids \X FileNames |-> NoFile]]

\* What store_circuit(input), run alone and without an I/O error, makes of
\* the store st.
store_circuit(st, input) ==
    LET id == input.info.id
        stored == info_to_store(input.info)
        wa == [st.files EXCEPT ![stored.artifact_path] = input.artifact_data]
        wp == [wa EXCEPT ![stored.proving_key_path] = input.proving_key_data]
        wv == [wp EXCEPT ![stored.verification_key_path] = input.verification_key_data]
    IN  IF \/ file_name(input.info.artifact_path) = NoName
           \/ file_name(input.info.proving_key_path) = NoName
           \/ file_name(input.info.verification_key_path) = NoName
        THEN [st EXCEPT !.dirs = @ \cup {id}]
        ELSE [info_tree |-> [st.info_tree EXCEPT ![id] = serialize_info(stored)],
              dirs |-> st.dirs \cup {id},
              files |-> wv]

\* What remove_circuit(id), run alone and without an I/O error, makes of the
\* store st.
remove_circuit(st, id) ==
    IF st.info_tree[id] = NoRow THEN st
    ELSE [info_tree |-> [st.info_tree EXCEPT ![id] = NoRow],
          dirs |-> st.dirs \ {id},
          files |-> [p \in Ids \X FileNames |->
                        IF p[1] = id THEN NoFile ELSE st.files[p]]]

\* The scheduler runs the other of the two threads that share the store.
Switch ==
    /\ concurrent.op # op
    /\ op' = concurrent.op
    /\ concurrent' = [concurrent EXCEPT !.op = op]
    /\ UNCHANGED <<info_tree, durable_tree, dirs, files, sessionVars, exchangeVars, transcriptVars, jobVars, parseVars>>

\* Two threads, each calling store_circuit or remove_circuit once on the
\* store they share; no call meets an I/O error.
NextConcurrentStore ==
    \/ \E input \in PutInputs : op.kind = "none" /\ PutStart(input)
    \/ \E id \in Ids : op.kind = "none" /\ RemoveStart(id)
    \/ PutWrite
    \/ PutInsert
    \/ PutFlush
    \/ RemoveDir
    \/ RemoveFlush
    \/ Switch

(***************************************************************************)
(* Job handlers (jobs/register_circuit.rs, jobs/generate_proof.rs)         *)
(***************************************************************************)
CircuitTypes == {"Circom", "Noir"}

ProvingBackends == {"Groth16", "Plonk", "UltraHonk"}

\* A validation that lets every backend through.
validate_backend_compatibility_any(circuit_type, proving_backend) == "Ok"

\* validate_backend_compatibility: Ok(()) or Err(IncompatibleBackend).
validate_backend_compatibility(circuit_type, proving_backend) ==
    CASE circuit_type = "Circom" /\ proving_backend = "Groth16" -> "Ok"
      [] circuit_type = "Circom" /\ proving_backend = "Plonk" -> "Ok"
      [] circuit_type = "Noir" /\ proving_backend = "UltraHonk" -> "Ok"
      [] OTHER -> "IncompatibleBackend"

\* generate_circuit_id: SHA-256 over name, {:?} of the type, {:?} of the backend.
generate_circuit_id(name, circuit_type, proving_backend) ==
    Sha256(<<name>> \o <<circuit_type>> \o <<proving_backend>>)

\* hex::encode
hex_encode(bytes) == <<"hex", bytes>>

\* The artifact's extension by circuit type, appended to ARTIFACT_FILENAME.
artifact_filename_of(circuit_type) ==
    IF circuit_type = "Circom" THEN artifact_filename ELSE "circuit_artifact.acir"

JobFileNames ==
    { artifact_filename_of(t) : t \in CircuitTypes }
        \cup {PROVING_KEY_FILENAME, VERIFICATION_KEY_FILENAME}

Names == {"test_circuit"}

GoodUrl == "http://mock/test_circuit.r1cs"

\* Url::parse: a relative reference without a base does not parse.
Urls == {GoodUrl, "test_circuit.r1cs"}

UrlParses(url) == url = GoodUrl

RegisterInputs ==
    [name : Names, circuit_type : CircuitTypes, proving_backend : ProvingBackends,
     artifact_url : Urls]

JobCircuitIds ==
    { generate_circuit_id(nm, t, b) :
          nm \in Names, t \in CircuitTypes, b \in ProvingBackends }

JobHexIds == { hex_encode(id) : id \in JobCircuitIds }

\* generate_keys_placeholder
generate_keys_placeholder ==
    [proving_key_data |-> "fake_proving_key_data",
     verification_key_data |-> "fake_verification_key_data",
     verifier_address |-> "0x00"]

\* The CircuitInfo register_circuit builds, with the three relative paths, and
\* the blobs it hands to the store.
RegisterStoreInput(args, artifact_data) ==
    [info |->
        [id |-> hex_encode(generate_circuit_id(args.name, args.circuit_type,
                                               args.proving_backend)),
         name |-> args.name, circuit_type |-> args.circuit_type,
         proving_backend |-> args.proving_backend,
         artifact_path |-> <<artifact_filename_of(args.circuit_type)>>,
         proving_key_path |-> <<PROVING_KEY_FILENAME>>,
         verification_key_path |-> <<VERIFICATION_KEY_FILENAME>>,
         verifier_address |-> generate_keys_placeholder.verifier_address],
     artifact_data |-> artifact_data,
     proving_key_data |-> generate_keys_placeholder.proving_key_data,
     verification_key_data |-> generate_keys_placeholder.verification_key_data]

\* store_circuit_artifacts followed by store_circuit_info: the store's put
\* (blobs first, metadata row second, flush last), begun here.
store_circuit_artifacts(input) == PutBegin(input) \/ PutBeginFails(input)

NoJob ==
    [kind |-> "none", pc |-> "done", args |-> <<>>, result |-> "none",
     value |-> <<>>, seq |-> 0, downloaded |-> FALSE, stored |-> FALSE,
     queried |-> FALSE, established |-> FALSE, registered |-> {},
     before |-> <<>>]

\* A handler invocation begins: nothing done yet; `before` keeps the rows and
\* the files of the store as the call found them.
NewJob(kind, args) ==
    [NoJob EXCEPT !.kind = kind, !.args = args, !.seq = job.seq + 1,
                  !.registered = job.registered,
                  !.before = [info_tree |-> info_tree, files |-> files]]

Return(j, res, value) == [j EXCEPT !.pc = "done", !.result = res, !.value = value]

JobIdle == job.pc = "done" /\ job.seq < MaxJobs /\ Ready

\* register_circuit up to its first suspension point: the validation, the
\* circuit id, Url::parse and the start of the download.
RegisterOutcome(args) ==
    IF validate_backend_compatibility(args.circuit_type, args.proving_backend) # "Ok"
    THEN Return(NewJob("register", args), "IncompatibleBackend",
                <<"Proving backend ", args.proving_backend,
                  " is not compatible with circuit type ", args.circuit_type>>)
    ELSE IF ~UrlParses(args.artifact_url)
    THEN Return(NewJob("register", args), "UrlParseError", <<>>)
    ELSE [NewJob("register", args) EXCEPT !.pc = "download", !.downloaded = TRUE]

RegisterBegin(args) ==
    /\ JobIdle
    /\ job' = RegisterOutcome(args)
    /\ UNCHANGED <<derived, sessionVars, exchangeVars, transcriptVars, concurrentVars, parseVars, storeVars>>

\* download_artifact fails: the request failed or the status is not 2xx.
RegisterDownloadFails ==
    /\ job.kind = "register" /\ job.pc = "download"
    /\ job' = Return(job, "NetworkError", <<>>)
    /\ UNCHANGED <<derived, sessionVars, exchangeVars, transcriptVars, concurrentVars, parseVars, storeVars>>

\* download_artifact returns the body; the keys are generated and the
\* handler calls into the store.
RegisterPersist(artifact_data) ==
    /\ job.kind = "register" /\ job.pc = "download"
    /\ store_circuit_artifacts(RegisterStoreInput(job.args, artifact_data))
    /\ job' = [job EXCEPT !.pc = "storing", !.stored = TRUE]
    /\ UNCHANGED <<derived, sessionVars, exchangeVars, transcriptVars, concurrentVars, parseVars>>

\* The store call returned: its error, or Ok((circuit_id, verifier address,
\* verification key)).
RegisterReturn ==
    /\ job.kind = "register" /\ job.pc = "storing"
    /\ op.kind = "put" /\ op.pc = "done"
    /\ job' =
          IF op.result = "Ok"
          THEN [Return(job, "Ok",
                       <<generate_circuit_id(job.args.name, job.args.circuit_type,
                                             job.args.proving_backend),
                         generate_keys_placeholder.verifier_address,
                         generate_keys_placeholder.verification_key_data>>)
                   EXCEPT !.registered =
                       job.registered \cup
                           {generate_circuit_id(job.args.name, job.args.circuit_type,
                                                job.args.proving_backend)}]
          ELSE Return(job, op.result, <<>>)
    /\ UNCHANGED <<derived, sessionVars, exchangeVars, transcriptVars, concurrentVars, parseVars, storeVars>>

\* The natural order of the key type (Ord of K::Public).
KeyOrder == <<"kA", "kB", "kC">>

Keys == {KeyOrder[k] : k \in 1..Len(KeyOrder)}

Rank(key) == CHOOSE k \in 1..Len(KeyOrder) : KeyOrder[k] = key

RECURSIVE InsertSorted(_, _)
InsertSorted(key, sorted) ==
    IF sorted = <<>> THEN <<key>>
    ELSE IF Rank(key) < Rank(Head(sorted)) THEN <<key>> \o sorted
    ELSE <<Head(sorted)>> \o InsertSorted(key, Tail(sorted))

\* participants.sort() left out: the list as the registry returned it.
sort_unsorted(list) == list

\* participants.sort()
RECURSIVE sort(_)
sort(list) ==
    IF list = <<>> THEN <<>> ELSE InsertSorted(Head(list), sort(Tail(list)))

\* What DefaultHasher is fed: call_id.hash writes the u64, participants.hash
\* writes the length of the slice and then every key.
HashInput(call_id, participants) ==
    <<call_id>> \o <<Len(participants)>> \o participants

\* DefaultHasher::finish(): SipHash of the bytes written, taken to give
\* different values for different inputs.
DefaultHasher(written) == <<"siphash", written>>

\* A session id derived from the participants alone.
generate_session_id_without_call(call_id, participants) ==
    <<"mpc-session-", DefaultHasher(<<Len(participants)>> \o participants)>>

\* generate_session_id: format!("mpc-session-{}", hasher.finish())
generate_session_id(call_id, participants) ==
    <<"mpc-session-", DefaultHasher(HashInput(call_id, participants))>>

CallIds == {1, 2}

\* What ctx.get_operators() may return to a handler on this node.
OperatorLists == { <<>>, <<"kB", "kA">>, <<"kC", "kB">> }

JobSessions ==
    { generate_session_id(c, sort(l)) : c \in CallIds, l \in OperatorLists \ {<<>>} }

\* Circuit ids a caller may ask a proof for: one that register_circuit can
\* assign and one that it never assigns.
ProveInputs ==
    [call_id : CallIds,
     circuit_id : { generate_circuit_id("test_circuit", "Circom", "Groth16"),
                    generate_circuit_id("test_circuit", "Noir", "Groth16") }]

\* A lookup under the raw id instead of its hex rendering.
LookupKeyRaw(circuit_id) == circuit_id

\* let circuit_id_hex = hex::encode(circuit_id): the key of the lookup.
LookupKey(circuit_id) == hex_encode(circuit_id)

\* get_circuit_info(&circuit_id_hex)?.ok_or_else(InvalidInput)
LookupOrNone(key) == IF key \in DOMAIN info_tree THEN get_circuit_info(key) ELSE NoRow

\* generate_proof querying the operators before it looks at the lookup's
\* result.
ProveOutcomeQueryFirst(args) ==
    [NewJob("prove", args) EXCEPT !.pc = "operators", !.queried = TRUE]

\* generate_proof up to its first suspension point: the lookup of the
\* circuit, then the start of the operator query.
ProveOutcome(args) ==
    IF LookupOrNone(LookupKey(args.circuit_id)) = NoRow
    THEN Return(NewJob("prove", args), "InvalidInput",
                <<"Circuit ID not found: ", hex_encode(args.circuit_id)>>)
    ELSE [NewJob("prove", args) EXCEPT !.pc = "operators", !.queried = TRUE]

ProveBegin(args) ==
    /\ JobIdle
    /\ job' = ProveOutcome(args)
    /\ UNCHANGED <<derived, sessionVars, exchangeVars, transcriptVars, concurrentVars, parseVars, storeVars>>

\* The sled read of get_circuit_info fails.
ProveLookupFails(args) ==
    /\ JobIdle
    /\ job' = Return(NewJob("prove", args), "StateError", <<>>)
    /\ UNCHANGED <<derived, sessionVars, exchangeVars, transcriptVars, concurrentVars, parseVars, storeVars>>

\* ctx.get_operators().await fails.
ProveOperatorsFail ==
    /\ job.kind = "prove" /\ job.pc = "operators"
    /\ job' = Return(job, "BlueprintSdkError", <<>>)
    /\ UNCHANGED <<derived, sessionVars, exchangeVars, transcriptVars, concurrentVars, parseVars, storeVars>>

\* ctx.get_operators() returned no operator.
ProveNoOperators ==
    /\ job.kind = "prove" /\ job.pc = "operators"
    /\ job' = Return(job, "ConfigError", <<>>)
    /\ UNCHANGED <<derived, sessionVars, exchangeVars, transcriptVars, concurrentVars, parseVars, storeVars>>

\* ctx.get_operators() returned the operators: they are sorted, the session id
\* is derived and establish_mpc_session is called.
ProveEstablish(list) ==
    /\ job.kind = "prove" /\ job.pc = "operators"
    /\ list # <<>>
    /\ calls' = [calls EXCEPT ![1] =
                    Invoked(generate_session_id(job.args.call_id, sort(list)),
                            sort(list))]
    /\ job' = [job EXCEPT !.pc = "establish", !.established = TRUE]
    /\ UNCHANGED <<established_handlers, nextHandle, derived, exchangeVars, transcriptVars, concurrentVars, parseVars, storeVars>>

\* establish_mpc_session returned: its error, or the handler, over which the
\* proof is produced.
ProveReturn ==
    /\ job.kind = "prove" /\ job.pc = "establish"
    /\ calls[1].pc \in {"ok", "err"}
    /\ job' = IF calls[1].pc = "err"
              THEN Return(job, calls[1].err, calls[1].msg)
              ELSE Return(job, "Ok",
                          <<"proof_for_", hex_encode(job.args.circuit_id),
                            job.args.call_id>>)
    /\ UNCHANGED <<derived, sessionVars, exchangeVars, transcriptVars, concurrentVars, parseVars, storeVars>>

ArtifactBodies == {"dummy"}

NextJobs ==
    \/ \E args \in RegisterInputs : RegisterBegin(args)
    \/ RegisterDownloadFails
    \/ \E body \in ArtifactBodies : RegisterPersist(body)
    \/ PutWrite
    \/ PutWriteFails
    \/ PutInsert
    \/ PutInsertFails
    \/ PutFlush
    \/ PutFlushFails
    \/ RegisterReturn
    \/ \E args \in ProveInputs : ProveBegin(args)
    \/ \E args \in ProveInputs : ProveLookupFails(args)
    \/ ProveOperatorsFail
    \/ ProveNoOperators
    \/ \E list \in OperatorLists : ProveEstablish(list)
    \/ \E c \in Calls : Begin(c)
    \/ \E c \in Calls : \E e \in ExchangeErrors(c) : ExchangeFailed(c, e)
    \/ \E c \in Calls : ConvertFailed(c)
    \/ \E c \in Calls : MeshStarted(c)
    \/ \E c \in Calls : MeshFailed(c)
    \/ \E c \in Calls : MeshEstablished(c)
    \/ \E c \in Calls : CacheInsert(c)
    \/ ProveReturn

(***************************************************************************)
(* Session setup as derived on several nodes (generate_proof.rs 65-83,     *)
(* network.rs 127-138)                                                     *)
(***************************************************************************)
Nodes == 1..MaxNodes

NoDerived == <<>>

IdleNode ==
    [pc |-> "idle", call_id |-> 0, operators |-> <<>>, participants |-> <<>>,
     session_id |-> <<>>, party_mapping |-> <<>>]

RECURSIVE Orderings(_)
Orderings(set) ==
    IF set = {} THEN {<<>>}
    ELSE UNION { { <<k>> \o rest : rest \in Orderings(set \ {k}) } : k \in set }

\* The registry's answers: every non-empty operator set in every order.
RegistryAnswers ==
    UNION { Orderings(set) : set \in (SUBSET Keys) \ {{}} }

\* party_mapping: enumerate() of the ordered participants, PartyIndex -> key.
party_mapping(ordered_participants) ==
    [i \in 0..(Len(ordered_participants) - 1) |-> ordered_participants[i + 1]]

\* generate_proof on node nd: get_operators() returned `list` for the call.
Query(nd, call_id, list) ==
    /\ derived[nd].pc = "idle"
    /\ \A other \in Nodes : other < nd => derived[other].pc # "idle"
    /\ derived' = [derived EXCEPT ![nd] =
                      [IdleNode EXCEPT !.pc = "queried", !.call_id = call_id,
                                       !.operators = list]]
    /\ UNCHANGED <<job, sessionVars, exchangeVars, transcriptVars, concurrentVars, parseVars, storeVars>>

\* generate_proof on node nd sorts the participants and derives the session
\* id; establish_mpc_session numbers the parties.
Derive(nd) ==
    /\ derived[nd].pc = "queried"
    /\ derived' = [derived EXCEPT ![nd] =
                      [derived[nd] EXCEPT
                          !.pc = "done",
                          !.participants = sort(derived[nd].operators),
                          !.session_id =
                              generate_session_id(derived[nd].call_id,
                                                  sort(derived[nd].operators)),
                          !.party_mapping =
                              party_mapping(sort(derived[nd].operators))]]
    /\ UNCHANGED <<job, sessionVars, exchangeVars, transcriptVars, concurrentVars, parseVars, storeVars>>

NextDerive ==
    \/ \E nd \in Nodes, call_id \in CallIds, list \in RegistryAnswers :
          Query(nd, call_id, list)
    \/ \E nd \in Nodes : Derive(nd)

(***************************************************************************)
(* Claims about the MPC Session Manager, checked under SessionSpec         *)
(***************************************************************************)

\* C1 (as claimed): single-flight. At no time are two establish calls for
\* the same session identifier both inside an establishment attempt (config
\* exchange, TLS mesh handshake or the pending cache insert).
C1_SingleFlight ==
    \A c, d \in Calls :
        (c # d /\ calls[c].sid = calls[d].sid /\ InFlight(c)) => ~InFlight(d)

\* C2 (as claimed): every successful establish call for one session
\* identifier returns the same handle object.
C2_SameHandle ==
    \A c, d \in Calls :
        (calls[c].pc = "ok" /\ calls[d].pc = "ok" /\ calls[c].sid = calls[d].sid)
            => calls[c].ret = calls[d].ret

\* C3 (as claimed): cache entries are write-once. Once the cache maps s to a
\* handle, every step leaves that entry as it is.
C3_WriteOnce ==
    [][\A s \in Sessions :
          established_handlers[s] # NoHandle
              => established_handlers'[s] = established_handlers[s]]_vars

\* C4 (as claimed): cache hit. A call that began after establish(s, _) had
\* returned handle h returns h itself, and runs neither the config exchange
\* nor the TLS mesh handshake.
C4_CacheHit ==
    \A c \in Calls :
        (calls[c].pc = "ok" /\ calls[c].prior # {})
            => /\ \A h \in calls[c].prior : calls[c].ret = h
               /\ ~calls[c].ranExchange
               /\ ~calls[c].ranMesh

\* C5: a failed establishment is not cached. The step in which a call fails
\* leaves the cache unchanged and the failed call never wrote to it; every
\* cache entry is the handle a successful call inserted and returned; and a
\* call with valid participants that finds no entry for its session starts a
\* fresh attempt (it enters the config exchange).
C5_FailedNotCached ==
    [][\A c \in Calls :
          /\ (calls[c].pc # "err" /\ calls'[c].pc = "err")
                => /\ established_handlers' = established_handlers
                   /\ ~calls'[c].wrote
          /\ (/\ calls[c].pc = "read"
              /\ calls'[c].pc # "read"
              /\ established_handlers[calls[c].sid] = NoHandle
              /\ calls[c].parts = <<"kB", "kA">>)
                => calls'[c].pc = "exchange" /\ calls'[c].ranExchange
          /\ \A s \in Sessions :
                established_handlers'[s] # NoHandle
                    => \E d \in Calls : /\ calls'[d].pc = "ok"
                                        /\ calls'[d].sid = s
                                        /\ calls'[d].wrote
                                        /\ calls'[d].ret = established_handlers'[s]
      ]_vars

\* C5 witness: a call failed in the TLS mesh handshake, the cache has no
\* entry for its session, and a call for the same session that began after
\* the failure is running a fresh config exchange.
C5_Witness ==
    \E c, d \in Calls :
        /\ calls[c].pc = "err" /\ calls[c].err = "NetworkError"
        /\ calls[d].sid = calls[c].sid
        /\ calls[d].afterFailure
        /\ calls[d].pc = "exchange"
        /\ established_handlers[calls[c].sid] = NoHandle

\* The step in which call c leaves the synchronous prefix of establish.
Began(c) == calls[c].pc = "read" /\ calls'[c].pc # "read"

\* Call c returned a configuration error in this step, having sent no
\* protocol message, started no TLS handshake and left the cache as it was.
RejectedUpFront(c) ==
    /\ calls'[c].pc = "err"
    /\ calls'[c].err = "ConfigError"
    /\ ~calls'[c].ranExchange
    /\ ~calls'[c].ranMesh
    /\ ~calls'[c].wrote
    /\ established_handlers' = established_handlers

ValidPairs ==
    { p \in ParticipantLists : Len(p) >= 2 /\ position(p, LocalKey) # NoIndex }

\* C11 (as claimed): participant-count boundary. A call with exactly one
\* participant fails with a configuration error before any message is sent
\* and without touching the cache; a call with two valid participants
\* proceeds to the config exchange.
C11_ParticipantBoundary ==
    [][\A c \in Calls :
          Began(c) =>
              /\ Len(calls[c].parts) = 1 => RejectedUpFront(c)
              /\ calls[c].parts \in ValidPairs => calls'[c].pc = "exchange"
      ]_vars

\* C11 (amended): the boundary holds for a session without a cache entry. A
\* call with exactly one participant then fails with the configuration
\* error "at least 2 participants" before any message is sent and without
\* touching the cache, and a call with two valid participants enters the
\* config exchange; with a cache entry the call returns the cached handle.
C11_ParticipantBoundaryOnMiss ==
    [][\A c \in Calls :
          Began(c) =>
              IF established_handlers[calls[c].sid] = NoHandle
              THEN /\ Len(calls[c].parts) = 1
                        => RejectedUpFront(c) /\ calls'[c].msg = TooFewParticipants
                   /\ calls[c].parts \in ValidPairs
                        => /\ calls'[c].pc = "exchange"
                           /\ calls'[c].ranExchange
                           /\ established_handlers' = established_handlers
              ELSE /\ calls'[c].pc = "ok"
                   /\ calls'[c].ret = established_handlers[calls[c].sid]
      ]_vars

\* C11 witness: one call was rejected for having fewer than two participants
\* while another call, with two valid participants, is in the config
\* exchange, and nothing is cached.
C11_Witness ==
    \E c, d \in Calls :
        /\ calls[c].pc = "err" /\ calls[c].msg = TooFewParticipants
        /\ calls[d].pc = "exchange"
        /\ \A s \in Sessions : established_handlers[s] = NoHandle

\* C12 (as claimed): a call whose participant list lacks the local key fails
\* at once with a configuration error: no Commit or Reveal is sent, no TLS
\* handshake is started and the cache is unchanged.
C12_LocalKeyRequired ==
    [][\A c \in Calls :
          (Began(c) /\ position(calls[c].parts, LocalKey) = NoIndex)
              => RejectedUpFront(c)
      ]_vars

\* C12 (amended): for a session without a cache entry, a call whose
\* participant list lacks the local key fails at once with a configuration
\* error, sends nothing, starts no handshake and leaves the cache unchanged;
\* with a cache entry the call returns the cached handle.
C12_LocalKeyRequiredOnMiss ==
    [][\A c \in Calls :
          (Began(c) /\ position(calls[c].parts, LocalKey) = NoIndex)
              => IF established_handlers[calls[c].sid] = NoHandle
                 THEN RejectedUpFront(c)
                 ELSE /\ calls'[c].pc = "ok"
                      /\ calls'[c].ret = established_handlers[calls[c].sid]
      ]_vars

\* C12 witness: a call with two participants, neither of them the local
\* node, was rejected, and the cache has no entry for its session.
C12_Witness ==
    \E c \in Calls :
        /\ calls[c].pc = "err" /\ calls[c].msg = LocalNodeNotFound
        /\ ~calls[c].ranExchange
        /\ established_handlers[calls[c].sid] = NoHandle

\* The call c returned on a cache hit: it has a handle, and it ran no config
\* exchange, started no TLS mesh and wrote no cache entry.
ReturnedFromCache(c) ==
    /\ calls[c].pc = "ok"
    /\ calls[c].ret # NoHandle
    /\ ~calls[c].ranExchange
    /\ ~calls[c].ranMesh
    /\ ~calls[c].wrote

\* C36: the cache lookup precedes all validation. A call for a session that
\* has a cache entry when the call reads the cache returns the handle of that
\* entry whatever participant list it was passed (fewer than two keys, no
\* local key, or any other list): it reports no configuration error, runs no
\* config exchange, starts no TLS mesh and leaves the cache as it was.
C36_CacheLookupFirst ==
    [][\A c \in Calls :
          (Began(c) /\ established_handlers[calls[c].sid] # NoHandle)
              => /\ calls'[c].pc = "ok"
                 /\ calls'[c].ret = established_handlers[calls[c].sid]
                 /\ calls'[c].err = "none"
                 /\ calls'[c].parts = calls[c].parts
                 /\ ~calls'[c].ranExchange
                 /\ ~calls'[c].ranMesh
                 /\ ~calls'[c].wrote
                 /\ established_handlers' = established_handlers
      ]_vars

\* C36 witness: two calls have returned the cached handle of their session,
\* one passed a single key and the other a list without the local key, and
\* the session was established by a third call with a valid list.
C36_Witness ==
    \E c, d, e \in Calls :
        /\ ReturnedFromCache(c) /\ Len(calls[c].parts) = 1
        /\ ReturnedFromCache(d) /\ Len(calls[d].parts) >= 2
        /\ position(calls[d].parts, LocalKey) = NoIndex
        /\ calls[e].pc = "ok" /\ calls[e].wrote
        /\ calls[c].sid = calls[e].sid /\ calls[d].sid = calls[e].sid
        /\ calls[c].ret = established_handlers[calls[e].sid]
        /\ calls[d].ret = established_handlers[calls[e].sid]

\* C23: the TLS mesh initiator is started only by a call whose config
\* exchange has returned the verified map, with one party entry for every
\* index of the participant list; a call whose exchange is still running or
\* has failed has not started it.
C23_MeshAfterExchange ==
    [][\A c \in Calls :
          /\ calls'[c].ranMesh
                => calls'[c].exchange.kind = "Ok" /\ calls'[c].pc # "exchange"
          /\ (~calls[c].ranMesh /\ calls'[c].ranMesh)
                => /\ calls[c].pc = "exchange"
                   /\ calls'[c].parties = [k \in 1..Len(calls[c].parts) |-> k - 1]]_vars

\* A call started the mesh after its exchange succeeded, and another call's
\* exchange failed and that call returned without starting the mesh.
C23_Witness ==
    \E c, d \in Calls :
        /\ calls[c].ranMesh /\ calls[c].parties = <<0, 1>>
        /\ calls[d].pc = "err" /\ calls[d].ranExchange /\ ~calls[d].ranMesh
        /\ calls[d].exchange.kind = "CommitmentMismatch"

\* C26: cancellation safety. A call whose future was dropped at an .await
\* point wrote nothing to the cache and holds no lock guard; every cache entry
\* is the handle that a call which returned successfully inserted; and the
\* calls that remain can take the cache lock they are waiting for.
C26_CancellationSafety ==
    /\ \A c \in Calls :
          calls[c].pc = "cancelled"
              => /\ ~calls[c].wrote
                 /\ calls[c].guard = "none"
                 /\ \A d \in Calls \ {c} :
                       /\ calls[d].pc = "read" => ENABLED Begin(d)
                       /\ calls[d].pc = "insert" => ENABLED CacheInsert(d)
    /\ \A s \in Sessions :
          established_handlers[s] # NoHandle
              => \E d \in Calls : /\ calls[d].pc = "ok"
                                  /\ calls[d].sid = s
                                  /\ calls[d].wrote
                                  /\ calls[d].ret = established_handlers[s]

\* C26 witness: the first call was dropped while waiting for the write lock,
\* after its mesh had been established; a later call for the same session
\* found no entry, established its own handler, cached and returned it.
C26_Witness ==
    /\ calls[1].pc = "cancelled"
    /\ calls[2].pc = "ok" /\ calls[2].sid = calls[1].sid /\ calls[2].wrote
    /\ calls[2].ret = 2
    /\ calls[3].pc = "idle"
    /\ nextHandle = 3
    /\ established_handlers[calls[1].sid] = 2

\* C27: independent sessions. A call inside the config exchange or the mesh
\* establishment holds no guard of the cache lock, and while a call is there
\* every other call can take its next step: the cache read of a call that is
\* at its entry and the cache write of a call that has built its handler.
C27_IndependentSessions ==
    \A a \in Calls :
        calls[a].pc \in {"exchange", "mesh"}
            => /\ calls[a].guard = "none"
               /\ \A b \in Calls \ {a} :
                     /\ calls[b].pc = "read" => ENABLED Begin(b)
                     /\ calls[b].pc = "insert" => ENABLED CacheInsert(b)

\* C27 witness: the first call is still inside its config exchange for one
\* session while a second call has established and cached another session and
\* a third call has been served that session from the cache.
C27_Witness ==
    /\ calls[1].pc = "exchange"
    /\ calls[2].pc = "ok" /\ calls[2].sid # calls[1].sid /\ calls[2].wrote
    /\ calls[3].pc = "ok" /\ calls[3].sid = calls[2].sid
    /\ ~calls[3].ranExchange /\ calls[3].ret = calls[2].ret

\* C28: no local retries. A call starts the config exchange at most once and
\* the mesh establishment at most once; a call that returned the error of a
\* failed exchange ran one exchange and no mesh, and its error carries what
\* that exchange returned; a call that returned the error of a failed mesh
\* ran one exchange and one mesh.
C28_NoLocalRetries ==
    \A c \in Calls :
        /\ calls[c].exchanges <= 1
        /\ calls[c].meshes <= 1
        /\ (calls[c].pc = "err" /\ calls[c].err = "MpcProtocolError")
              => /\ calls[c].exchanges = 1
                 /\ calls[c].meshes = 0
                 /\ calls[c].msg = map_exchange_err(calls[c].exchange).msg
        /\ (calls[c].pc = "err" /\ calls[c].err = "NetworkError")
              => /\ calls[c].exchanges = 1
                 /\ calls[c].meshes = 1

\* C28 witness: one call returned after its exchange failed, another after
\* its mesh establishment failed.
C28_Witness ==
    \E c, d \in Calls :
        /\ calls[c].pc = "err" /\ calls[c].err = "MpcProtocolError"
        /\ calls[c].exchanges = 1 /\ calls[c].meshes = 0
        /\ calls[d].pc = "err" /\ calls[d].err = "NetworkError"
        /\ calls[d].exchanges = 1 /\ calls[d].meshes = 1

\* C18: when the config exchange run by establish returned a commitment
\* mismatch, the error establish returns to the job is of the
\* commitment-mismatch kind and carries the exchange's list of blames.
C18_BlamesSurfaced ==
    \A c \in Calls :
        (calls[c].pc = "err" /\ calls[c].exchange.kind = "CommitmentMismatch")
            => /\ calls[c].err = "CommitmentMismatch"
               /\ calls[c].msg = calls[c].exchange.guilty_parties

(***************************************************************************)
(* Claims about Config Exchange, checked under ExchangeSpec                *)
(***************************************************************************)

\* The endpoint an honest party i holds when its listen address is host:port.
WellFormed(i) == local_config[i].dns_name = <<"h", ":", "9", DigitOf(i)>>

ExpectedConfig(j) ==
    [id |-> j, dns_name |-> [hostname |-> <<"h">>, port |-> 90 + j],
     cert_path |-> <<"c", DigitOf(j)>>]

\* C6: honest agreement. When every party follows the protocol with a
\* well-formed host:port endpoint, a party never returns a commitment
\* mismatch or an invalid-DNS error, every returned map has exactly the keys
\* 0..n-1, entry j is party j's endpoint and cert path with id j, and any two
\* returned maps are equal.
C6_HonestAgreement ==
    (dishonest = {} /\ \A i \in Parties : WellFormed(i))
        => /\ \A i \in Parties :
                /\ result[i].kind \in {"none", "Ok", "ExchangeRoundBasedError"}
                /\ result[i].kind = "Ok"
                      => /\ DOMAIN result[i].party_configs = 0..(n - 1)
                         /\ \A j \in Parties :
                               result[i].party_configs[j] = ExpectedConfig(j)
           /\ \A i, k \in Parties :
                (result[i].kind = "Ok" /\ result[k].kind = "Ok")
                    => result[i].party_configs = result[k].party_configs

\* C6 witness: three honest parties with well-formed endpoints have all
\* returned a map.
C6_Witness ==
    /\ n >= 3
    /\ dishonest = {}
    /\ \A i \in Parties : WellFormed(i) /\ result[i].kind = "Ok"

\* The Reveal party i received from j does not hash to the Commit it
\* received from j.
Mismatch(i, j) ==
    commitments[i][j] # Sha256(serialize(revealed_configs[i][j]))

\* C7 (as claimed): blame completeness. Every honest party with a
\* well-formed endpoint whose run completed both rounds, and that received
\* from some j a Reveal not hashing to j's Commit, returns
\* commitment-mismatch with a blame entry for j, whatever the others sent.
C7_BlameCompleteness ==
    \A i \in Honest : \A j \in Parties \ {i} :
        (xpc[i] = "done" /\ WellFormed(i) /\ Mismatch(i, j))
            => /\ result[i].kind = "CommitmentMismatch"
               /\ \E b \in 1..Len(result[i].guilty_parties) :
                     result[i].guilty_parties[b].guilty_party = j

\* C8 (as claimed): agreement. Any two honest parties that return a success
\* map return equal maps, also when a dishonest party sends different,
\* individually consistent Commit/Reveal pairs to different peers.
C8_Agreement ==
    \A i, k \in Honest :
        (result[i].kind = "Ok" /\ result[k].kind = "Ok")
            => result[i].party_configs = result[k].party_configs

\* The ordering inside one party: it has broadcast its Reveal, or holds a
\* received Reveal, only with the Commit of every other party in hand.
OwnOrdering ==
    \A i \in Honest :
        (SentReveal(i) \/ \E j \in Parties : revealed_configs[i][j] # NoMsg)
            => \A j \in Parties \ {i} : commitments[i][j] # NoMsg

\* The step in which party j's commitment is chosen: an honest party
\* computes it when it broadcasts its Commit, a dishonest one may decide what
\* receiver i gets as late as the delivery to i.
CommitChosen(i, j) ==
    IF j \in Honest
    THEN xpc[j] = "start" /\ xpc'[j] = "round1"
    ELSE commitments[i][j] = NoMsg /\ commitments'[i][j] # NoMsg

\* C19 (as claimed): commit-before-reveal ordering. A party broadcasts its
\* Reveal only after it received the Commit of every other party and examines
\* a received Reveal only after round 1 completed, and no party's commitment
\* is chosen after an honest party has already broadcast its Reveal.
C19_CommitBeforeReveal ==
    [][/\ OwnOrdering'
       /\ \A i \in Honest : \A j \in Parties \ {i} :
             CommitChosen(i, j) => \A h \in Honest \ {j} : ~SentReveal(h)]_vars

\* C20: success soundness. When party i returns a success map, the Reveal it
\* received from every other party j hashes to the commitment it received
\* from j, the entry for j is built from that Reveal, and no blame is held.
C20_SuccessSoundness ==
    \A i \in Honest :
        result[i].kind = "Ok"
            => /\ result[i].guilty_parties = <<>>
               /\ \A j \in Parties \ {i} :
                     /\ Sha256(serialize(revealed_configs[i][j])) = commitments[i][j]
                     /\ j \in DOMAIN result[i].party_configs
                     /\ result[i].party_configs[j] =
                           NetworkPartyConfig(i, j,
                               Address(parse_dns_name(revealed_configs[i][j].dns_name)),
                               revealed_configs[i][j].cert_path)

\* A party returned a success map in a run with a dishonest sender, while
\* another party of the same run blamed that sender.
C20_Witness ==
    \E i, k \in Honest :
        /\ result[i].kind = "Ok"
        /\ dishonest # {}
        /\ result[k].kind = "CommitmentMismatch"

\* C21: every blame a party holds for party j carries the identifier of j's
\* own Commit and the identifier of j's own Reveal, and j is another party
\* whose Reveal did not hash to its Commit.
C21_BlamePairing ==
    \A i \in Honest : \A b \in 1..Len(result[i].guilty_parties) :
        LET bl == result[i].guilty_parties[b]
        IN  /\ bl.guilty_party \in Parties \ {i}
            /\ bl.commitment_msg = MsgId("commit", bl.guilty_party)
            /\ bl.reveal_msg = MsgId("reveal", bl.guilty_party)
            /\ commitments[i][bl.guilty_party] #
                   Sha256(serialize(revealed_configs[i][bl.guilty_party]))

\* The party in the middle of three holds a blame for one of its two peers,
\* the other one having sent a consistent pair.
C21_Witness ==
    /\ n = 3
    /\ result[1].kind = "CommitmentMismatch"
    /\ Len(result[1].guilty_parties) = 1

\* Whether the result of party i holds a blame naming party j.
Blames(i, j) ==
    \E b \in 1..Len(result[i].guilty_parties) :
        result[i].guilty_parties[b].guilty_party = j

\* C37: no false blame. An honest party i holds a blame naming j only if the
\* Reveal it received from j does not hash to the Commit it received from j;
\* a party j that is honest, its messages delivered as sent, is named in no
\* honest party's blames; and no party blames itself.
C37_NoFalseBlame ==
    \A i \in Honest : \A j \in AllParties :
        /\ Blames(i, j) =>
               /\ j \in dishonest
               /\ commitments[i][j] # NoMsg
               /\ revealed_configs[i][j] # NoMsg
               /\ Sha256(serialize(revealed_configs[i][j])) # commitments[i][j]
        /\ j \in Honest => ~Blames(i, j)
        /\ j = i => ~Blames(i, j)

\* C37 witness: of three parties the last is dishonest; party 0 received a
\* mismatching pair from it and blames it alone, while the pair it received
\* from the honest party 1 verified, and party 1, which received a matching
\* pair from the dishonest party, blames nobody.
C37_Witness ==
    /\ n = 3 /\ dishonest = {2}
    /\ xpc[0] = "done" /\ xpc[1] = "done"
    /\ Blames(0, 2) /\ ~Blames(0, 1) /\ ~Blames(0, 0)
    /\ commitments[0][1] = Sha256(serialize(revealed_configs[0][1]))
    /\ revealed_configs[0][1] = local_config[1]
    /\ commitments[1][2] = Sha256(serialize(revealed_configs[1][2]))
    /\ result[1].guilty_parties = <<>>

\* The dns_name party i holds for party j once both rounds completed: its own
\* for itself, the one of the Reveal it received from j otherwise.
DnsNameOf(i, j) ==
    IF j = i THEN local_config[i].dns_name ELSE revealed_configs[i][j].dns_name

\* Party i received from j a Reveal that hashes to the Commit it received.
Verified(i, j) ==
    /\ j \in Parties \ {i}
    /\ commitments[i][j] = Sha256(serialize(revealed_configs[i][j]))

Malformed(dns_name) == ~parse_dns_name(dns_name).ok

\* C38: the exchange returns no success map with an endpoint that did not
\* parse as hostname:port. Every entry of a success map is the parsed
\* dns_name of its party; a party that completed both rounds with a malformed
\* local dns_name, or with a malformed dns_name from a peer whose commitment
\* verified, returns the invalid-DNS-name error and no map; and a party fails
\* with that error only after both rounds completed, its Commit and its
\* Reveal broadcast.
C38_NoUnparsedEndpoint ==
    \A i \in Honest :
        /\ result[i].kind = "Ok" =>
               \A j \in DOMAIN result[i].party_configs :
                   /\ ~Malformed(DnsNameOf(i, j))
                   /\ result[i].party_configs[j].dns_name =
                          Address(parse_dns_name(DnsNameOf(i, j)))
        /\ ( /\ xpc[i] = "done"
             /\ \/ Malformed(local_config[i].dns_name)
                \/ \E j \in Parties :
                       Verified(i, j) /\ Malformed(DnsNameOf(i, j)) )
               => /\ result[i].kind = "InvalidDnsName"
                  /\ result[i].party_configs = <<>>
        /\ result[i].kind = "InvalidDnsName" =>
               /\ xpc[i] = "done"
               /\ SentCommit(i) /\ SentReveal(i)
               /\ \A j \in Parties \ {i} :
                      commitments[i][j] # NoMsg /\ revealed_configs[i][j] # NoMsg
        /\ xpc[i] \in {"start", "round1", "round2"} => result[i].kind = "none"

\* C38 witness: two parties failed with the invalid-DNS-name error after
\* both rounds. Party 1 holds a local dns_name with more than one colon and
\* received matching, well-formed pairs from both peers; party 0 holds a
\* well-formed one and received from the dishonest party 2 a Reveal without
\* a port that hashes to its Commit.
C38_Witness ==
    /\ n = 3 /\ dishonest = {2}
    /\ WellFormed(0) /\ Malformed(local_config[1].dns_name)
    /\ result[0].kind = "InvalidDnsName" /\ result[1].kind = "InvalidDnsName"
    /\ Verified(0, 2) /\ Malformed(DnsNameOf(0, 2))
    /\ Verified(1, 0) /\ ~Malformed(DnsNameOf(1, 0))
    /\ Verified(1, 2) /\ ~Malformed(DnsNameOf(1, 2))
    /\ SentCommit(1) /\ SentReveal(1)

\* C25: liveness of the honest exchange. When all n parties run the protocol
\* with host:port endpoints and every broadcast is delivered, every party's
\* exchange eventually returns, and returns the success map.
C25_HonestLiveness ==
    (dishonest = {} /\ \A i \in Parties : WellFormed(i))
        => <>(\A i \in Parties : result[i].kind = "Ok")

\* Three honest parties with host:port endpoints have all returned success.
C25_Witness ==
    /\ n = 3 /\ dishonest = {}
    /\ \A i \in Parties : WellFormed(i) /\ xpc[i] = "done" /\ result[i].kind = "Ok"

(***************************************************************************)
(* Claims about parse_dns_name, checked under ParseSpec                    *)
(***************************************************************************)

Colons(s) == { k \in 1..Len(s) : s[k] = ":" }

\* The text after the only colon of s.
PortText(s) ==
    LET k == CHOOSE c \in Colons(s) : TRUE
    IN  SubSeq(s, k + 1, Len(s))

\* A decimal port in 0..65535: one or more decimal digits with that value.
DecimalPort(p) ==
    /\ p # <<>>
    /\ \A k \in 1..Len(p) : p[k] \in DigitChars
    /\ DecimalValue(p) <= 65535

\* C35: parse_dns_name accepts exactly the strings hostname:port with a
\* single colon and a decimal port in 0..65535, the port parsed being the
\* value of the digits; every other string fails with the invalid-DNS-name
\* error.
C35_DnsNameShape ==
    parsing.pc = "returned"
        => LET s == parsing.dns_name
           IN  /\ parsing.result.ok
                     <=> (Cardinality(Colons(s)) = 1 /\ DecimalPort(PortText(s)))
               /\ parsing.result.ok
                     => parsing.result.port = DecimalValue(PortText(s))

(***************************************************************************)
(* Claims about the Party Transcript, checked under TranscriptSpec         *)
(***************************************************************************)

\* C22: round ordering. Every round-2 message that complete() handed to the
\* party comes after the round-1 message of every peer in what complete()
\* handed out, whatever the order in which the transport delivered them.
C22_RoundOrdering ==
    \A p \in 1..Len(rounds.completed) :
        rounds.completed[p][1] = "reveal"
            => \A k \in Peers :
                  \E q \in 1..(p - 1) : rounds.completed[q] = <<"commit", k>>

\* Both rounds were completed in a run where a peer's Reveal was delivered
\* while another peer's Commit was still missing.
C22_Witness ==
    /\ rounds.pc = "done"
    /\ rounds.early
    /\ n >= 3

\* C24 (as claimed): with a silent peer the exchange of every other
\* participant still returns, with a transport failure; it never blocks
\* forever.
C24_SilentPeerTermination ==
    (rounds.pc = "start" /\ rounds.silent # {}) ~> (rounds.pc = "failed")

(***************************************************************************)
(* Claims about the Circuit Store, checked under StoreSpec                 *)
(***************************************************************************)

\* C9 (as claimed): metadata implies blobs. Every key of the metadata tree
\* has its artifact, proving-key and verification-key files on disk at the
\* paths its metadata records, also after operations that failed or crashed
\* part-way.
C9_MetadataImpliesBlobs ==
    \A id \in Ids :
        info_tree[id] # NoRow
            => /\ get_artifact_data(get_circuit_info(id)) # IoError
               /\ get_proving_key_data(get_circuit_info(id)) # IoError
               /\ get_verification_key_data(get_circuit_info(id)) # IoError

\* A lookup of the id of the put that returned Ok just before it.
GetAfterPut ==
    /\ op.kind = "get"
    /\ op.args.after.kind = "put"
    /\ op.args.after.result = "Ok"
    /\ op.args.after.args.info.id = op.args.id

LastComponent(path) == path[Len(path)]

C29_BlobsImplyMetadata ==
    \A id \in dirs : info_tree[id] # NoRow

\* C29 (amended): when the last operation on the store was a put that
\* returned Ok, the directory of its id exists and has a metadata row; when it
\* was a remove that returned the removed info, the directory of its id is
\* gone together with the row. (A directory without a row exists while a put
\* is in progress and remains after a put or a remove that returned an
\* error.)
C29_BlobsImplyMetadataAfterSuccess ==
    /\ (Ready /\ op.kind = "put" /\ op.result = "Ok")
          => /\ op.args.info.id \in dirs
             /\ info_tree[op.args.info.id] # NoRow
    /\ (Ready /\ op.kind = "remove" /\ op.result = "Some")
          => /\ op.args \notin dirs
             /\ info_tree[op.args] = NoRow

\* C29 witness: a remove returned the info of a circuit that a put had
\* stored, and neither its directory nor its row remains.
C29_Witness ==
    /\ Ready /\ op.kind = "remove" /\ op.result = "Some"
    /\ op.value.proving_backend = "Plonk"
    /\ dirs = {}
    /\ info_tree[op.args] = NoRow
    /\ durable_tree[op.args] = NoRow

\* The last bytes store_circuit writes under each of its three paths are on
\* disk.
Written(o) ==
    LET stored == info_to_store(o.args.info)
        pa == stored.artifact_path
        pp == stored.proving_key_path
        pv == stored.verification_key_path
    IN  /\ read_file(pv) = o.args.verification_key_data
        /\ pp # pv => read_file(pp) = o.args.proving_key_data
        /\ pa \notin {pp, pv} => read_file(pa) = o.args.artifact_data

\* C30: put write order. In every step of a put: the metadata tree changes
\* only in the insert; the insert is reached only with the three blobs
\* written; the put returns Ok only from its flush, which writes out a tree
\* that holds the row inserted; and a put whose blob write fails returns the
\* I/O error with the metadata tree unchanged.
C30_PutWriteOrder ==
    [][(op.kind = "put" /\ op.pc # "done" /\ op'.kind = "put" /\ op' # op)
          => LET row == serialize_info(info_to_store(op.args.info))
             IN  /\ op.pc # "insert" => info_tree' = info_tree
                 /\ op.pc = "insert" => Written(op)
                 /\ (op.pc = "insert" /\ op'.pc = "flush")
                       => info_tree'[op.args.info.id] = row
                 /\ op'.pc = "flush" => op.pc = "insert"
                 /\ (op'.pc = "done" /\ op'.result = "Ok")
                       => /\ op.pc = "flush"
                          /\ info_tree[op.args.info.id] = row
                          /\ durable_tree' = info_tree
                 /\ (Writing /\ op'.pc = "done")
                       => /\ op'.result = "IoError"
                          /\ info_tree' = info_tree
      ]_vars

\* C30 witness: a put on the empty store wrote its artifact and its proving
\* key, failed on the verification key and returned the I/O error; the
\* metadata tree has no row.
C30_Witness ==
    /\ Ready /\ op.kind = "put" /\ op.result = "IoError"
    /\ files[<<op.args.info.id, artifact_filename>>] = op.args.artifact_data
    /\ files[<<op.args.info.id, PROVING_KEY_FILENAME>>] = op.args.proving_key_data
    /\ files[<<op.args.info.id, VERIFICATION_KEY_FILENAME>>] = Truncated
    /\ info_tree[op.args.info.id] = NoRow

\* C31: remove. In the steps of remove(id) on a stored id: the row leaves the
\* tree first, with the directory and the disk image of the tree untouched;
\* then the directory and its files go; then the flush writes the tree out
\* and remove returns the info that was stored, after which get(id) is none,
\* list() does not contain id and the directory is gone. When removing the
\* directory fails, remove returns the I/O error and the row is still absent
\* from the tree.
C31_Remove ==
    [][\A id \in Ids :
          /\ (Ready /\ info_tree[id] # NoRow
               /\ op'.kind = "remove" /\ op'.args = id /\ op'.pc = "remove_dir")
                => /\ info_tree'[id] = NoRow
                   /\ op'.value = get_circuit_info(id)
                   /\ UNCHANGED <<durable_tree, dirs, files>>
          /\ (op.kind = "remove" /\ op.args = id /\ op'.kind = "remove" /\ op' # op
               /\ op.pc # "done")
                => /\ op.pc = "remove_dir" /\ op'.pc = "flush"
                      => /\ id \notin dirs'
                         /\ \A f \in FileNames : files'[<<id, f>>] = NoFile
                         /\ UNCHANGED <<info_tree, durable_tree>>
                   /\ op'.pc = "flush" => op.pc = "remove_dir"
                   /\ (op'.pc = "done" /\ op'.result = "Some")
                      => /\ op.pc = "flush"
                         /\ op'.value = op.value
                         /\ durable_tree' = info_tree
                         /\ info_tree'[id] = NoRow
                         /\ durable_tree'[id] = NoRow
                         /\ id \notin { k \in Ids : info_tree'[k] # NoRow }
                         /\ id \notin dirs'
                   /\ (op.pc = "remove_dir" /\ op'.pc = "done")
                      => /\ op'.result = "IoError"
                         /\ info_tree'[id] = NoRow
      ]_vars

\* C31 witness: a remove of a stored id returned the I/O error of a failed
\* directory removal; the row is absent, get is none, list() is empty and the
\* directory is still there.
C31_Witness ==
    /\ Ready /\ op.kind = "remove" /\ op.result = "IoError"
    /\ get_circuit_info(op.args) = NoRow
    /\ op.args \notin list_circuit_ids
    /\ op.args \in dirs

\* Whether the three paths of a put's info have file names.
HasFileNames(input) ==
    /\ file_name(input.info.artifact_path) # NoName
    /\ file_name(input.info.proving_key_path) # NoName
    /\ file_name(input.info.verification_key_path) # NoName

\* A put of the id whose directory exists is accepted and its writes are
\* not refused.
PutOverExistingProceeds ==
    /\ \A input \in PutInputs :
          (Ready /\ input.info.id \in dirs /\ HasFileNames(input))
              => ENABLED (PutStart(input) /\ op'.pc = "write_artifact")
    /\ (Writing /\ WriteTarget(op).path[1] \in dirs) => ENABLED PutWrite

PutReturnedOk == Ready /\ op.kind = "put" /\ op.result = "Ok"

Apply(st, o) ==
    IF o.kind = "put" THEN store_circuit(st, o.args) ELSE remove_circuit(st, o.args)

BothReturned ==
    /\ op.kind # "none" /\ op.pc = "done"
    /\ concurrent.op.kind # "none" /\ concurrent.op.pc = "done"

\* C33: writers are serialised. When two threads have each run one
\* store_circuit or remove_circuit concurrently and both have returned, the
\* tree, the directories and the files are what one of the two sequential
\* orders of the two calls makes of the store they started on; in particular
\* no row is left whose directory a concurrent remove deleted.
C33_WritersSerialised ==
    BothReturned
        => /\ StoreImage \in
                 { Apply(Apply(concurrent.start, op), concurrent.op),
                   Apply(Apply(concurrent.start, concurrent.op), op) }
           /\ \A id \in Ids : info_tree[id] # NoRow => id \in dirs

\* MpcNetworkManager::new: an empty cache, no call made; no exchange runs and
\* the store is empty.
InitSession ==
    /\ established_handlers = [s \in Sessions |-> NoHandle]
    /\ calls = [c \in Calls |-> IdleCall]
    /\ nextHandle = 1
    /\ n = 0
    /\ dishonest = {}
    /\ local_config = [i \in AllParties |-> NoMsg]
    /\ xpc = [i \in AllParties |-> "off"]
    /\ commitments = [i \in AllParties |-> [j \in AllParties |-> NoMsg]]
    /\ revealed_configs = [i \in AllParties |-> [j \in AllParties |-> NoMsg]]
    /\ result = [i \in AllParties |-> NoResult]
    /\ info_tree = [id \in Ids |-> NoRow]
    /\ durable_tree = [id \in Ids |-> NoRow]
    /\ dirs = {}
    /\ files = [p \in Ids \X FileNames |-> NoFile]
    /\ op = NoOp
    /\ job = NoJob
    /\ derived = NoDerived
    /\ rounds = NoRounds
    /\ concurrent = NoConcurrent
    /\ parsing = NoParsing

\* n >= 2 parties, at least one of which runs mpc_config_exchange.
InitExchange ==
    /\ n \in 2..MaxParties
    /\ dishonest \in SUBSET (0..(n - 1))
    /\ dishonest # 0..(n - 1)
    /\ local_config \in [AllParties -> UNION {HonestReveals(i) : i \in AllParties} \cup {NoMsg}]
    /\ \A i \in AllParties :
          IF i < n /\ i \notin dishonest
          THEN local_config[i] \in HonestReveals(i)
          ELSE local_config[i] = NoMsg
    /\ xpc = [i \in AllParties |-> IF i < n /\ i \notin dishonest THEN "start" ELSE "off"]
    /\ commitments = [i \in AllParties |-> [j \in AllParties |-> NoMsg]]
    /\ revealed_configs = [i \in AllParties |-> [j \in AllParties |-> NoMsg]]
    /\ result = [i \in AllParties |-> NoResult]
    /\ established_handlers = [s \in Sessions |-> NoHandle]
    /\ calls = [c \in Calls |-> IdleCall]
    /\ nextHandle = 1
    /\ info_tree = [id \in Ids |-> NoRow]
    /\ durable_tree = [id \in Ids |-> NoRow]
    /\ dirs = {}
    /\ files = [p \in Ids \X FileNames |-> NoFile]
    /\ op = NoOp
    /\ job = NoJob
    /\ derived = NoDerived
    /\ rounds = NoRounds
    /\ concurrent = NoConcurrent
    /\ parsing = NoParsing

\* CircuitStore::new on an empty data directory.
InitStore ==
    /\ info_tree = [id \in Ids |-> NoRow]
    /\ durable_tree = [id \in Ids |-> NoRow]
    /\ dirs = {}
    /\ files = [p \in Ids \X FileNames |-> NoFile]
    /\ op = NoOp
    /\ established_handlers = [s \in Sessions |-> NoHandle]
    /\ calls = [c \in Calls |-> IdleCall]
    /\ nextHandle = 1
    /\ n = 0
    /\ dishonest = {}
    /\ local_config = [i \in AllParties |-> NoMsg]
    /\ xpc = [i \in AllParties |-> "off"]
    /\ commitments = [i \in AllParties |-> [j \in AllParties |-> NoMsg]]
    /\ revealed_configs = [i \in AllParties |-> [j \in AllParties |-> NoMsg]]
    /\ result = [i \in AllParties |-> NoResult]
    /\ job = NoJob
    /\ derived = NoDerived
    /\ rounds = NoRounds
    /\ concurrent = NoConcurrent
    /\ parsing = NoParsing

\* A put of input began in this step: the store was idle and the operation
\* now recorded is that put.
PutBegan(input) ==
    /\ Ready
    /\ op' # op
    /\ op'.kind = "put"
    /\ op'.args = input

\* C39: a put whose artifact, proving-key or verification-key path has no
\* file name fails at once with the invalid-input error, inserts no metadata
\* row and writes no blob file; the only effect it leaves is the circuit's
\* directory, created before the paths are validated (a put whose
\* create_dir_all failed returns the I/O error and leaves nothing).
C39_PutWithoutFileName ==
    [][\A input \in PutInputs :
          (PutBegan(input) /\ ~HasFileNames(input))
              => /\ op'.pc = "done"
                 /\ op'.result \in {"InvalidInput", IoError}
                 /\ info_tree' = info_tree
                 /\ durable_tree' = durable_tree
                 /\ files' = files
                 /\ op'.result = "InvalidInput"
                        => dirs' = dirs \cup {input.info.id}
                 /\ op'.result = IoError => dirs' = dirs
      ]_vars

\* C39 witness: a put whose proving-key path is empty returned the
\* invalid-input error on a store that has no row and no blob file for the
\* circuit, and the circuit's directory exists.
C39_Witness ==
    /\ Ready /\ op.kind = "put" /\ op.result = "InvalidInput"
    /\ file_name(op.args.info.artifact_path) # NoName
    /\ file_name(op.args.info.proving_key_path) = NoName
    /\ op.args.info.id \in dirs
    /\ info_tree[op.args.info.id] = NoRow
    /\ \A f \in FileNames : files[<<op.args.info.id, f>>] = NoFile

(***************************************************************************)
(* Claims about the job handlers, checked under JobsSpec                   *)
(***************************************************************************)

CompatiblePairs ==
    { <<"Circom", "Groth16">>, <<"Circom", "Plonk">>, <<"Noir", "UltraHonk">> }

\* No directory, file or metadata row exists for hex id h.
NothingStoredFor(h) ==
    /\ h \notin dirs
    /\ info_tree[h] = NoRow
    /\ \A f \in JobFileNames : files[<<h, f>>] = NoFile

\* C13: register-circuit accepts exactly the three compatible (kind, backend)
\* pairs. For any other pair it has returned the incompatible-backend error
\* without starting the download and without calling the store, and the
\* store holds nothing under the id of such a pair; for a compatible pair it
\* never returns that error, and with a URL that parses it starts the
\* download.
C13_BackendCompatibility ==
    /\ job.kind = "register" =>
          IF <<job.args.circuit_type, job.args.proving_backend>> \in CompatiblePairs
          THEN /\ job.result # "IncompatibleBackend"
               /\ UrlParses(job.args.artifact_url) => job.downloaded
          ELSE /\ job.pc = "done"
               /\ job.result = "IncompatibleBackend"
               /\ ~job.downloaded
               /\ ~job.stored
    /\ \A nm \in Names, t \in CircuitTypes, b \in ProvingBackends :
          <<t, b>> \notin CompatiblePairs
              => NothingStoredFor(hex_encode(generate_circuit_id(nm, t, b)))

\* C13 witness: after a registration with a compatible pair succeeded, a
\* registration with an incompatible pair was rejected.
C13_Witness ==
    /\ job.kind = "register"
    /\ job.result = "IncompatibleBackend"
    /\ job.registered # {}

\* C34: register-circuit never partially mutates the store. When a
\* register-circuit call has returned an error, whatever its failure point,
\* the metadata rows and the blob files of the store are those the call found
\* when it began.
C34_RegisterNoPartialMutation ==
    (job.kind = "register" /\ job.pc = "done" /\ job.result # "Ok")
        => /\ info_tree = job.before.info_tree
           /\ files = job.before.files

\* C14: register then look up. For every id a successful register-circuit
\* returned, the store holds a metadata row keyed hex(id), the directory
\* artifacts/<hex-id>/ holds circuit_artifact.<ext>, proving.key and
\* verification.key, the three reads through the stored metadata succeed, and
\* a generate-proof call with that id does not fail with the unknown-circuit
\* error.
C14_RegisterThenLookup ==
    \A id \in job.registered :
        /\ info_tree[hex_encode(id)] # NoRow
        /\ hex_encode(id) \in dirs
        /\ files[<<hex_encode(id),
                   artifact_filename_of(get_circuit_info(hex_encode(id)).circuit_type)>>]
               # NoFile
        /\ files[<<hex_encode(id), PROVING_KEY_FILENAME>>] # NoFile
        /\ files[<<hex_encode(id), VERIFICATION_KEY_FILENAME>>] # NoFile
        /\ get_artifact_data(get_circuit_info(hex_encode(id))) # IoError
        /\ get_proving_key_data(get_circuit_info(hex_encode(id))) # IoError
        /\ get_verification_key_data(get_circuit_info(hex_encode(id))) # IoError
        /\ (job.kind = "prove" /\ job.args.circuit_id = id)
              => job.result # "InvalidInput"

\* C14 witness: a generate-proof call for an id that register-circuit had
\* returned found the circuit and went on to query the operators.
C14_Witness ==
    /\ job.kind = "prove"
    /\ job.args.circuit_id \in job.registered
    /\ job.queried

\* The step in which a generate-proof call begins and its lookup finds no
\* metadata row for the circuit id.
ProveUnknownBegins ==
    /\ job'.seq = job.seq + 1
    /\ job'.kind = "prove"
    /\ info_tree[hex_encode(job'.args.circuit_id)] = NoRow
    /\ job'.result # "StateError"

\* C15: a generate-proof call whose circuit id has no metadata row returns,
\* in the step in which its lookup finds none, the invalid-input error that
\* names the hex id; it has not queried the operator registry and has not
\* called establish, and the step leaves the Circuit Store and the session
\* cache as they were.
C15_UnknownCircuit ==
    [][ProveUnknownBegins =>
          /\ job'.pc = "done"
          /\ job'.result = "InvalidInput"
          /\ job'.value = <<"Circuit ID not found: ", hex_encode(job'.args.circuit_id)>>
          /\ ~job'.queried
          /\ ~job'.established
          /\ UNCHANGED <<info_tree, durable_tree, dirs, files, op>>
          /\ UNCHANGED <<established_handlers, calls, nextHandle>>
      ]_vars

\* C15 witness: with a circuit registered in the store, a generate-proof call
\* for another id was rejected with the invalid-input error.
C15_Witness ==
    /\ job.kind = "prove"
    /\ job.result = "InvalidInput"
    /\ job.registered # {}
    /\ job.args.circuit_id \notin job.registered

(***************************************************************************)
(* Claims about the session setup across nodes, checked under DeriveSpec   *)
(***************************************************************************)

OperatorSet(nd) == { derived[nd].operators[k] : k \in 1..Len(derived[nd].operators) }

SameSession(a, b) ==
    /\ derived[a].call_id = derived[b].call_id
    /\ OperatorSet(a) = OperatorSet(b)

\* C16: cross-node determinism. Two nodes that ran generate-proof for the
\* same call id and the same operator set derived the same session
\* identifier and the same index-to-key assignment, whatever order their
\* registry queries returned; on every node the indices are exactly 0..n-1
\* and every operator has exactly one index.
C16_CrossNodeDeterminism ==
    /\ \A a, b \in Nodes :
          (derived[a].pc = "done" /\ derived[b].pc = "done" /\ SameSession(a, b))
              => /\ derived[a].session_id = derived[b].session_id
                 /\ derived[a].party_mapping = derived[b].party_mapping
    /\ \A a \in Nodes :
          derived[a].pc = "done"
              => /\ DOMAIN derived[a].party_mapping
                        = 0..(Cardinality(OperatorSet(a)) - 1)
                 /\ \A key \in OperatorSet(a) :
                        Cardinality({ i \in DOMAIN derived[a].party_mapping :
                                         derived[a].party_mapping[i] = key }) = 1

\* C16 witness: two nodes whose registry queries returned the same three
\* operators in different orders have both derived their session setup.
C16_Witness ==
    \E a, b \in Nodes :
        /\ derived[a].pc = "done" /\ derived[b].pc = "done"
        /\ SameSession(a, b)
        /\ derived[a].operators # derived[b].operators
        /\ Len(derived[a].operators) = 3

InitJobs ==
    /\ job = NoJob
    /\ derived = NoDerived
    /\ rounds = NoRounds
    /\ concurrent = NoConcurrent
    /\ parsing = NoParsing
    /\ info_tree = [id \in JobHexIds |-> NoRow]
    /\ durable_tree = [id \in JobHexIds |-> NoRow]
    /\ dirs = {}
    /\ files = [p \in JobHexIds \X JobFileNames |-> NoFile]
    /\ op = NoOp
    /\ established_handlers = [s \in JobSessions |-> NoHandle]
    /\ calls = [c \in Calls |-> IdleCall]
    /\ nextHandle = 1
    /\ n = 0
    /\ dishonest = {}
    /\ local_config = [i \in AllParties |-> NoMsg]
    /\ xpc = [i \in AllParties |-> "off"]
    /\ commitments = [i \in AllParties |-> [j \in AllParties |-> NoMsg]]
    /\ revealed_configs = [i \in AllParties |-> [j \in AllParties |-> NoMsg]]
    /\ result = [i \in AllParties |-> NoResult]

SessionSpec == InitSession /\ [][NextSession]_vars

SessionCancelSpec == InitSession /\ [][NextSessionCancel]_vars

JobsSpec == InitJobs /\ [][NextJobs]_vars

\* No node has run generate_proof yet.
InitDerive ==
    /\ derived = [nd \in Nodes |-> IdleNode]
    /\ rounds = NoRounds
    /\ concurrent = NoConcurrent
    /\ parsing = NoParsing
    /\ job = NoJob
    /\ established_handlers = [s \in Sessions |-> NoHandle]
    /\ calls = [c \in Calls |-> IdleCall]
    /\ nextHandle = 1
    /\ n = 0
    /\ dishonest = {}
    /\ local_config = [i \in AllParties |-> NoMsg]
    /\ xpc = [i \in AllParties |-> "off"]
    /\ commitments = [i \in AllParties |-> [j \in AllParties |-> NoMsg]]
    /\ revealed_configs = [i \in AllParties |-> [j \in AllParties |-> NoMsg]]
    /\ result = [i \in AllParties |-> NoResult]
    /\ info_tree = [id \in Ids |-> NoRow]
    /\ durable_tree = [id \in Ids |-> NoRow]
    /\ dirs = {}
    /\ files = [p \in Ids \X FileNames |-> NoFile]
    /\ op = NoOp

DeriveSpec == InitDerive /\ [][NextDerive]_vars

\* Party i of n enters mpc_config_exchange and starts listening.
InitTranscript ==
    /\ n \in 2..MaxParties
    /\ rounds \in {Listening(i, silent) : i \in AllParties, silent \in SUBSET AllParties}
    /\ rounds.i < n
    /\ rounds.silent \subseteq (0..(n - 1)) \ {rounds.i}
    /\ dishonest = {}
    /\ local_config = [i \in AllParties |-> NoMsg]
    /\ xpc = [i \in AllParties |-> "off"]
    /\ commitments = [i \in AllParties |-> [j \in AllParties |-> NoMsg]]
    /\ revealed_configs = [i \in AllParties |-> [j \in AllParties |-> NoMsg]]
    /\ result = [i \in AllParties |-> NoResult]
    /\ established_handlers = [s \in Sessions |-> NoHandle]
    /\ calls = [c \in Calls |-> IdleCall]
    /\ nextHandle = 1
    /\ info_tree = [id \in Ids |-> NoRow]
    /\ durable_tree = [id \in Ids |-> NoRow]
    /\ dirs = {}
    /\ files = [p \in Ids \X FileNames |-> NoFile]
    /\ op = NoOp
    /\ job = NoJob
    /\ derived = NoDerived
    /\ concurrent = NoConcurrent
    /\ parsing = NoParsing

TranscriptSpec == InitTranscript /\ [][NextTranscript]_vars

TranscriptLiveSpec == TranscriptSpec /\ TranscriptFairness

ExchangeSpec == InitExchange /\ [][NextExchange]_vars

ExchangeLiveSpec ==
    InitExchange /\ [][NextExchangeDelivered]_vars /\ ExchangeFairness

StoreSpec == InitStore /\ [][NextStore]_vars

\* A store that is empty or holds one circuit, shared by two threads that
\* have not called it yet.
InitConcurrentStore ==
    /\ \E st \in {EmptyStore} \cup { store_circuit(EmptyStore, input) : input \in PutInputs } :
          /\ info_tree = st.info_tree
          /\ durable_tree = st.info_tree
          /\ dirs = st.dirs
          /\ files = st.files
          /\ concurrent = [op |-> NoOp, start |-> st]
    /\ op = NoOp
    /\ established_handlers = [s \in Sessions |-> NoHandle]
    /\ calls = [c \in Calls |-> IdleCall]
    /\ nextHandle = 1
    /\ n = 0
    /\ dishonest = {}
    /\ local_config = [i \in AllParties |-> NoMsg]
    /\ xpc = [i \in AllParties |-> "off"]
    /\ commitments = [i \in AllParties |-> [j \in AllParties |-> NoMsg]]
    /\ revealed_configs = [i \in AllParties |-> [j \in AllParties |-> NoMsg]]
    /\ result = [i \in AllParties |-> NoResult]
    /\ job = NoJob
    /\ derived = NoDerived
    /\ rounds = NoRounds
    /\ parsing = NoParsing

ConcurrentStoreSpec == InitConcurrentStore /\ [][NextConcurrentStore]_vars

\* A call of parse_dns_name on one of the strings.
InitParse ==
    /\ parsing \in { [pc |-> "called", dns_name |-> d, result |-> InvalidDns] : d \in DnsNames }
    /\ info_tree = [id \in Ids |-> NoRow]
    /\ durable_tree = [id \in Ids |-> NoRow]
    /\ dirs = {}
    /\ files = [p \in Ids \X FileNames |-> NoFile]
    /\ op = NoOp
    /\ established_handlers = [s \in Sessions |-> NoHandle]
    /\ calls = [c \in Calls |-> IdleCall]
    /\ nextHandle = 1
    /\ n = 0
    /\ dishonest = {}
    /\ local_config = [i \in AllParties |-> NoMsg]
    /\ xpc = [i \in AllParties |-> "off"]
    /\ commitments = [i \in AllParties |-> [j \in AllParties |-> NoMsg]]
    /\ revealed_configs = [i \in AllParties |-> [j \in AllParties |-> NoMsg]]
    /\ result = [i \in AllParties |-> NoResult]
    /\ job = NoJob
    /\ derived = NoDerived
    /\ rounds = NoRounds
    /\ concurrent = NoConcurrent

ParseSpec == InitParse /\ [][NextParse]_vars

====
